---- MODULE Spec2Model ----
(***************************************************************************)
(* A model of oraicwinconfig, the Windows installer of the Oracle Instant  *)
(* Client: the per-user environment table behind EnvVarManager, the file   *)
(* system, the archive extractor, the console prompts and the              *)
(* install/uninstall orchestrator of the most recent version of each       *)
(* package (internal/env, internal/config, internal/errs, internal/utils,  *)
(* internal/input, internal/oic and the main package that calls them).     *)
(*                                                                         *)
(* A Go string is a sequence of lexemes.  A lexeme is one character ("a",  *)
(* ";", "/", ".", " ", "'") or an indivisible word that no operation of    *)
(* the program ever cuts ("C:", "instantclient_", "network").              *)
(***************************************************************************)
EXTENDS Integers, Sequences, FiniteSets, TLC

VARIABLES
    pc,         \* position of main (or of the caller of a single operation)
    env,        \* the per-user environment table: name -> value or Unset
    env0,       \* the environment table when the run started
    conf,       \* the InstallConfig record
    dirs,       \* the directories that exist
    files,      \* the regular files that exist
    op,         \* the operation last called, with its arguments
    ret,        \* what that operation returned: [err, val]
    extracted,  \* the paths the extractFile calls have created or written
    fatal,      \* the message of the log.Fatal that ended the process, or ""
    ctx,        \* main's context: "live", or "done" once its deadline has passed
    calls       \* the operations that have been called so far

vars == <<pc, env, env0, conf, dirs, files, op, ret, extracted, fatal, ctx, calls>>

(***************************************************************************)
(* Bounds of the model.                                                    *)
(***************************************************************************)
MaxStrLen == 3      \* longest generated PATH value / PATH argument
MaxEntries == 2     \* most entries in a generated archive
MaxLines == 3       \* most lines waiting on standard input
MaxCalls == 3       \* most consecutive calls of one PATH operation

(***************************************************************************)
(* strings                                                                 *)
(***************************************************************************)
Strs(A, n) == UNION {[1..k -> A] : k \in 0..n}

CRLF == "\r\n"
Whitespace == {" ", CRLF}

RECURSIVE TrimLeft(_)
TrimLeft(s) == IF s # <<>> /\ Head(s) \in Whitespace THEN TrimLeft(Tail(s)) ELSE s

RECURSIVE TrimRight(_)
TrimRight(s) ==
    IF s # <<>> /\ s[Len(s)] \in Whitespace
    THEN TrimRight(SubSeq(s, 1, Len(s) - 1))
    ELSE s

\* strings.TrimSpace
TrimSpace(s) == TrimRight(TrimLeft(s))

\* strings.Contains
Contains(s, sub) ==
    \E i \in 0..(Len(s) - Len(sub)) : SubSeq(s, i + 1, i + Len(sub)) = sub

\* strings.HasSuffix
HasSuffix(s, suf) ==
    Len(suf) <= Len(s) /\ SubSeq(s, Len(s) - Len(suf) + 1, Len(s)) = suf

\* strings.Split(s, sep) for a one-lexeme separator: always at least one segment
RECURSIVE Split(_, _)
Split(s, sep) ==
    IF \A i \in 1..Len(s) : s[i] # sep
    THEN <<s>>
    ELSE LET i == CHOOSE j \in 1..Len(s) :
                      s[j] = sep /\ \A k \in 1..(j - 1) : s[k] # sep
         IN  <<SubSeq(s, 1, i - 1)>> \o Split(SubSeq(s, i + 1, Len(s)), sep)

\* strings.Join(segs, sep)
RECURSIVE JoinStrings(_, _)
JoinStrings(segs, sep) ==
    IF segs = <<>> THEN <<>>
    ELSE IF Len(segs) = 1 THEN segs[1]
    ELSE segs[1] \o <<sep>> \o JoinStrings(Tail(segs), sep)

\* the segments that differ from x, in their order
RECURSIVE Without(_, _)
Without(segments, x) ==
    IF segments = <<>> THEN <<>>
    ELSE (IF Head(segments) # x THEN <<Head(segments)>> ELSE <<>>)
         \o Without(Tail(segments), x)

(***************************************************************************)
(* package errs: an error is the chain of its wrappers, outermost first;   *)
(* the innermost element is the raw cause.                                 *)
(***************************************************************************)
Nil == <<>>

ErrorTypeDownload       == "download"
ErrorTypeInstall        == "install"
ErrorTypeEnvironment    == "environment"
ErrorTypeEnvVarNotFound == "envVarNotFound"
ErrorTypeValidation     == "validation"
ErrorTypeUserPath       == "userPath"

\* an error that is no *InstallError: fmt.Errorf(msg), an exec or an os error
RawError(msg) == <<[type |-> "raw", operation |-> msg]>>

HandleError(err, errorType, operation) ==
    IF err = Nil THEN Nil
    ELSE <<[type |-> errorType, operation |-> operation]>> \o err

\* the type assertion looks at the outermost error only
IsErrorType(err, errorType) == err # Nil /\ err[1].type = errorType

(***************************************************************************)
(* package env: EnvVarManager.  Every operation is one or two PowerShell   *)
(* invocations; failAt = k makes the k-th invocation of the operation      *)
(* fail (exec error or non-zero exit), failAt = 0 none.                    *)
(***************************************************************************)
Names == {"OCI_LIB64", "TNS_ADMIN", "PATH"}

\* a variable that is not in the table
Unset == <<"$null">>

\* The text PowerShell reads in the single-quoted literal '<s>' of the command
\* SetEnvVar formats: '' is one quote, a lone quote ends the literal and the
\* rest of the command no longer parses.
RECURSIVE PSLiteral(_)
PSLiteral(s) ==
    IF s = <<>> THEN [ok |-> TRUE, text |-> <<>>]
    ELSE IF Head(s) = "'"
         THEN IF Len(s) >= 2 /\ s[2] = "'"
              THEN LET r == PSLiteral(SubSeq(s, 3, Len(s)))
                   IN  [ok |-> r.ok, text |-> <<"'">> \o r.text]
              ELSE [ok |-> FALSE, text |-> <<>>]
         ELSE LET r == PSLiteral(Tail(s))
              IN  [ok |-> r.ok, text |-> <<Head(s)>> \o r.text]

\* what [System.Environment]::GetEnvironmentVariable(name, 'User') prints
PSOutput(e, name) == (IF e[name] = Unset THEN <<>> ELSE e[name]) \o <<CRLF>>

Degenerate == {<<>>, <<".">>, <<".", ".">>, <<"/">>, <<"\\">>}

GetEnvVarNoTrim(e, name, failAt) ==
    IF failAt = 1
    THEN [val |-> <<>>,
          err |-> HandleError(RawError("exec"), ErrorTypeEnvVarNotFound, "getting environment variable")]
    ELSE LET path == PSOutput(e, name)
         IN  IF path \in Degenerate
             THEN [val |-> <<>>,
                   err |-> HandleError(RawError("environment variable not found"),
                                       ErrorTypeEnvVarNotFound, "getting environment variable")]
             ELSE [val |-> path, err |-> Nil]

GetEnvVarNoDotDot(e, name, failAt) ==
    IF failAt = 1
    THEN [val |-> <<>>,
          err |-> HandleError(RawError("exec"), ErrorTypeEnvVarNotFound, "getting environment variable")]
    ELSE LET path == TrimSpace(PSOutput(e, name))
         IN  IF path \in Degenerate \ {<<".", ".">>}
             THEN [val |-> <<>>,
                   err |-> HandleError(RawError("environment variable not found"),
                                       ErrorTypeEnvVarNotFound, "getting environment variable")]
             ELSE [val |-> path, err |-> Nil]

GetEnvVar(e, name, failAt) ==
    IF failAt = 1
    THEN [val |-> <<>>,
          err |-> HandleError(RawError("exec"), ErrorTypeEnvVarNotFound, "getting environment variable")]
    ELSE LET path == TrimSpace(PSOutput(e, name))
         IN  IF path \in Degenerate
             THEN [val |-> <<>>,
                   err |-> HandleError(RawError("environment variable not found"),
                                       ErrorTypeEnvVarNotFound, "getting environment variable")]
             ELSE [val |-> path, err |-> Nil]

\* [Environment]::SetEnvironmentVariable(name, value, 'User'): an empty value
\* deletes the variable
SetEnvVar(e, name, value, failAt) ==
    LET lit == PSLiteral(value)
    IN  IF failAt = 1 \/ ~lit.ok
        THEN [env |-> e,
              err |-> HandleError(RawError("exec"), ErrorTypeEnvironment, "setting environment variable")]
        ELSE [env |-> [e EXCEPT ![name] = IF lit.text = <<>> THEN Unset ELSE lit.text],
              err |-> Nil]

RemoveEnvVar(e, name, failAt) ==
    IF failAt = 1
    THEN [env |-> e,
          err |-> HandleError(RawError("exec"), ErrorTypeEnvironment, "removing environment variable")]
    ELSE [env |-> [e EXCEPT ![name] = Unset], err |-> Nil]

AppendToPathAlwaysSeparator(e, newPath, failAt) ==
    LET g == GetEnvVar(e, "PATH", failAt)
    IN  IF g.err # Nil THEN [env |-> e, err |-> g.err]
        ELSE IF Contains(g.val, newPath) THEN [env |-> e, err |-> Nil]
        ELSE SetEnvVar(e, "PATH", g.val \o <<";">> \o newPath \o <<";">>, failAt - 1)

AppendToPath(e, newPath, failAt) ==
    LET g == GetEnvVar(e, "PATH", failAt)
    IN  IF g.err # Nil THEN [env |-> e, err |-> g.err]
        ELSE IF Contains(g.val, newPath) THEN [env |-> e, err |-> Nil]
        ELSE LET currentPath == IF HasSuffix(g.val, <<";">>) THEN g.val
                                ELSE g.val \o <<";">>
             IN  SetEnvVar(e, "PATH", currentPath \o newPath \o <<";">>, failAt - 1)

\* removes the first matching segment only
RemoveFromPathFirstOnly(e, pathToRemove, failAt) ==
    LET g == GetEnvVar(e, "PATH", failAt)
    IN  IF g.err # Nil THEN [env |-> e, err |-> g.err]
        ELSE LET segments == Split(g.val, ";")
                 hit == {i \in 1..Len(segments) : segments[i] = pathToRemove}
                 first == CHOOSE i \in hit : \A j \in hit : i <= j
                 newSegments == IF hit = {} THEN segments
                                ELSE SubSeq(segments, 1, first - 1)
                                     \o SubSeq(segments, first + 1, Len(segments))
             IN  SetEnvVar(e, "PATH", JoinStrings(newSegments, ";"), failAt - 1)

RemoveFromPath(e, pathToRemove, failAt) ==
    LET g == GetEnvVar(e, "PATH", failAt)
    IN  IF g.err # Nil THEN [env |-> e, err |-> g.err]
        ELSE LET segments == Split(g.val, ";")
                 newSegments == Without(segments, pathToRemove)
             IN  SetEnvVar(e, "PATH", JoinStrings(newSegments, ";"), failAt - 1)

(***************************************************************************)
(* path/filepath on Windows: `/` and `\` both separate, Clean writes `\`,  *)
(* "C:" is a volume name.                                                  *)
(***************************************************************************)
Separator == "\\"
IsPathSeparator(c) == c \in {"/", "\\"}

VolumeName(path) == IF path # <<>> /\ path[1] = "C:" THEN <<"C:">> ELSE <<>>

\* the pieces of s between separators (empty pieces included)
RECURSIVE Components(_)
Components(s) ==
    IF \A i \in 1..Len(s) : ~IsPathSeparator(s[i])
    THEN <<s>>
    ELSE LET i == CHOOSE j \in 1..Len(s) :
                      IsPathSeparator(s[j]) /\ \A k \in 1..(j - 1) : ~IsPathSeparator(s[k])
         IN  <<SubSeq(s, 1, i - 1)>> \o Components(SubSeq(s, i + 1, Len(s)))

\* Clean's loop: drop empty and `.` elements, let `..` take back the element
\* before it, keep a leading `..` only in a path that is not rooted
RECURSIVE Resolve(_, _, _)
Resolve(comps, out, rooted) ==
    IF comps = <<>> THEN out
    ELSE LET c == Head(comps)
         IN  IF c = <<>> \/ c = <<".">>
             THEN Resolve(Tail(comps), out, rooted)
             ELSE IF c = <<".", ".">>
             THEN IF out # <<>> /\ out[Len(out)] # <<".", ".">>
                  THEN Resolve(Tail(comps), SubSeq(out, 1, Len(out) - 1), rooted)
                  ELSE IF rooted
                  THEN Resolve(Tail(comps), out, rooted)
                  ELSE Resolve(Tail(comps), Append(out, c), rooted)
             ELSE Resolve(Tail(comps), Append(out, c), rooted)

\* filepath.Clean
Clean(path) ==
    LET vol == VolumeName(path)
        rest == SubSeq(path, Len(vol) + 1, Len(path))
    IN  IF rest = <<>> THEN path \o <<".">>
        ELSE LET rooted == IsPathSeparator(rest[1])
                 body == (IF rooted THEN <<Separator>> ELSE <<>>)
                         \o JoinStrings(Resolve(Components(rest), <<>>, rooted), Separator)
             IN  vol \o (IF body = <<>> THEN <<".">> ELSE body)

\* filepath.Dir
Dir(path) ==
    LET vol == VolumeName(path)
        seps == {i \in (Len(vol) + 1)..Len(path) : IsPathSeparator(path[i])}
        last == IF seps = {} THEN Len(vol)
                ELSE CHOOSE i \in seps : \A j \in seps : j <= i
    IN  vol \o Clean(SubSeq(path, Len(vol) + 1, last))

\* filepath.Join: the non-empty elements, separated, cleaned
Join(elems) ==
    LET nonEmpty == Without(elems, <<>>)
    IN  IF nonEmpty = <<>> THEN <<>>
        ELSE Clean(JoinStrings(nonEmpty, Separator))

(***************************************************************************)
(* The file system: the absolute, cleaned paths of the directories and of  *)
(* the regular files that exist.                                           *)
(***************************************************************************)
Cwd == <<"C:", "\\", "Users", "\\", "u">>

\* the absolute path the OS resolves path to
Abs(path) ==
    IF VolumeName(path) # <<>> THEN Clean(path)
    ELSE IF path # <<>> /\ IsPathSeparator(path[1]) THEN Clean(<<"C:">> \o path)
    ELSE Clean(Cwd \o <<Separator>> \o path)

\* an absolute path and the directories above it
RECURSIVE Ancestors(_)
Ancestors(p) == IF Dir(p) = p THEN {p} ELSE {p} \cup Ancestors(Dir(p))

\* the absolute path q is root or lies below it
Under(root, q) == root \in Ancestors(q)

\* os.Stat succeeds
Stat(fs, path) == path # <<>> /\ Abs(path) \in fs.dirs \cup fs.files
IsDir(fs, path) == path # <<>> /\ Abs(path) \in fs.dirs

\* os.MkdirAll: fails when an element of the path is a regular file
MkdirAll(fs, path) ==
    LET need == Ancestors(Abs(path))
    IN  IF path = <<>> \/ need \cap fs.files # {}
        THEN [fs |-> fs, err |-> RawError("mkdir: not a directory")]
        ELSE [fs |-> [fs EXCEPT !.dirs = @ \cup need], err |-> Nil]

\* os.Create: the parent must be a directory, the path itself none
Create(fs, path) ==
    IF path = <<>> \/ Abs(path) \in fs.dirs \/ Dir(Abs(path)) \notin fs.dirs
    THEN [fs |-> fs, err |-> RawError("open: cannot create")]
    ELSE [fs |-> [fs EXCEPT !.files = @ \cup {Abs(path)}], err |-> Nil]

\* os.RemoveAll: "" is a silent no-op, a path ending in a `.` element is
\* refused, anything else goes with all that lies below it
RemoveAll(fs, path) ==
    IF path = <<>> THEN [fs |-> fs, err |-> Nil]
    ELSE IF path = <<".">>
            \/ (Len(path) >= 2 /\ path[Len(path)] = "."
                /\ IsPathSeparator(path[Len(path) - 1]))
    THEN [fs |-> fs, err |-> RawError("RemoveAll: invalid argument")]
    ELSE [fs |-> [dirs |-> {d \in fs.dirs : ~Under(Abs(path), d)},
                  files |-> {f \in fs.files : ~Under(Abs(path), f)}],
          err |-> Nil]

(***************************************************************************)
(* package utils: UnZip and extractFile.  An archive is the sequence of    *)
(* its entries [name, fail]; fail names the step of extractFile at which   *)
(* the operating system reports an error for that entry ("none": nowhere). *)
(***************************************************************************)
Digits == {"0", "1", "2", "3", "4", "5", "6", "7", "8", "9"}

\* any number of digits in the two version fields
MatchTopDirAnyDigits(name) ==
    /\ Len(name) >= 5
    /\ name[1] = "instantclient_"
    /\ name[Len(name)] = "/"
    /\ \E u \in 3..(Len(name) - 2) :
         /\ name[u] = "_"
         /\ \A k \in (2..(Len(name) - 1)) \ {u} : name[k] \in Digits

\* regexp ^(instantclient_){1}([0-9]{1,2})_([0-9]{1,2})\/$
MatchTopDir(name) ==
    \E i \in 1..2, j \in 1..2 :
        /\ Len(name) = i + j + 3
        /\ name[1] = "instantclient_"
        /\ \A k \in 2..(i + 1) : name[k] \in Digits
        /\ name[i + 2] = "_"
        /\ \A k \in (i + 3)..(i + j + 2) : name[k] \in Digits
        /\ name[i + j + 3] = "/"

\* zip.File.FileInfo().IsDir(): the name of a directory entry ends in `/`
EntryIsDir(f) == f.name # <<>> /\ f.name[Len(f.name)] = "/"

\* extractFile from os.Create on; c: the result of os.Create
extractWrite(f, fs, madeDirs, outAbs, c) ==
    IF f.fail = "create" \/ c.err # Nil
    THEN [fs |-> fs, made |-> madeDirs,
          err |-> HandleError(RawError("create"), "raw", "creating output file")]
    ELSE IF f.fail = "copy"
    THEN [fs |-> c.fs, made |-> madeDirs \cup {outAbs},
          err |-> HandleError(RawError("copy"), "raw", "writing file contents")]
    ELSE [fs |-> c.fs, made |-> madeDirs \cup {outAbs}, err |-> Nil]

\* extractFile after its os.MkdirAll; m: the result of that call
extractMade(fs, f, outName, outAbs, m) ==
    IF f.fail = "mkdir" \/ m.err # Nil
    THEN [fs |-> fs, made |-> {},
          err |-> IF EntryIsDir(f) THEN RawError("mkdir")
                  ELSE HandleError(RawError("mkdir"), "raw", "creating directories")]
    ELSE IF EntryIsDir(f)
    THEN [fs |-> m.fs, made |-> (m.fs.dirs \ fs.dirs) \cup {outAbs}, err |-> Nil]
    ELSE IF f.fail = "open"
    THEN [fs |-> m.fs, made |-> m.fs.dirs \ fs.dirs,
          err |-> HandleError(RawError("open"), "raw", "opening zip file")]
    ELSE extractWrite(f, m.fs, m.fs.dirs \ fs.dirs, outAbs, Create(m.fs, outName))

\* extractFile; .made: the paths this call created or wrote
extractFile(fs, f, installPath) ==
    extractMade(fs, f, Join(<<installPath, f.name>>), Abs(Join(<<installPath, f.name>>)),
                MkdirAll(fs, IF EntryIsDir(f) THEN Join(<<installPath, f.name>>)
                             ELSE Dir(Join(<<installPath, f.name>>))))

\* the loop of UnZip from entry k on (k counts from 0, as in the code);
\* UnZipEntry is its body once extractFile has returned x
RECURSIVE UnZipLoop(_, _, _, _, _, _)
\* goes on with the next entry whatever extractFile returned
UnZipEntryKeepGoing(archive, k, installPath, newOut, made, x) ==
    UnZipLoop(x.fs, archive, k + 1, installPath, newOut, made \cup x.made)

UnZipEntry(archive, k, installPath, newOut, made, x) ==
    IF x.err # Nil
    THEN [fs |-> x.fs, made |-> made \cup x.made, outPath |-> newOut,
          err |-> HandleError(x.err, ErrorTypeInstall, "extracting file " \o ToString(k))]
    ELSE UnZipLoop(x.fs, archive, k + 1, installPath, newOut, made \cup x.made)

\* keeps the first matching name
UnZipLoopFirstMatch(fs, archive, k, installPath, outPath, made) ==
    IF k >= Len(archive)
    THEN [fs |-> fs, made |-> made, outPath |-> outPath, err |-> Nil]
    ELSE UnZipEntry(archive, k, installPath,
                    IF outPath = <<>> /\ MatchTopDir(archive[k + 1].name)
                    THEN archive[k + 1].name ELSE outPath,
                    made, extractFile(fs, archive[k + 1], installPath))

UnZipLoop(fs, archive, k, installPath, outPath, made) ==
    IF k >= Len(archive)
    THEN [fs |-> fs, made |-> made, outPath |-> outPath, err |-> Nil]
    ELSE UnZipEntry(archive, k, installPath,
                    IF MatchTopDir(archive[k + 1].name) THEN archive[k + 1].name ELSE outPath,
                    made, extractFile(fs, archive[k + 1], installPath))

\* the archive file that cannot be opened as a zip archive
BadZip == <<[name |-> <<"not a zip">>, fail |-> "open archive"]>>

\* UnZip after its loop; l: the result of the loop
UnZipResult(l) ==
    IF l.err # Nil
    THEN [fs |-> l.fs, made |-> l.made, val |-> <<>>, err |-> l.err]
    ELSE IF l.outPath = <<>>
    THEN [fs |-> l.fs, made |-> l.made, val |-> <<>>,
          err |-> HandleError(RawError("no valid instant client directory found in zip"),
                              ErrorTypeInstall, "validating zip contents")]
    ELSE [fs |-> l.fs, made |-> l.made, val |-> Clean(l.outPath), err |-> Nil]

\* UnZip after its os.MkdirAll; m: the result of that call
UnZipOpen(fs, archive, installPath, rootFail, m) ==
    IF rootFail \/ m.err # Nil
    THEN [fs |-> fs, made |-> {}, val |-> <<>>,
          err |-> HandleError(RawError("mkdir"), ErrorTypeInstall,
                              "creating base installation directory")]
    ELSE IF archive = BadZip
    THEN [fs |-> m.fs, made |-> {}, val |-> <<>>,
          err |-> HandleError(RawError("zip: not a valid zip file"), ErrorTypeInstall,
                              "opening zip archive")]
    ELSE UnZipResult(UnZipLoop(m.fs, archive, 0, installPath, <<>>, {}))

UnZip(fs, archive, installPath, rootFail) ==
    UnZipOpen(fs, archive, installPath, rootFail, MkdirAll(fs, installPath))

(***************************************************************************)
(* package config, most recent version (the one with Extant)               *)
(***************************************************************************)
defaultInstallPath == <<"C:", "/", "OraClient">>
DownloadsPath0 == <<"C:", "\\", "Users", "\\", "u", "\\", "Downloads">>

\* config.New followed by main's SetDownloadsPath
NewConfig == [InstallPath |-> defaultInstallPath,
              DownloadsPath |-> DownloadsPath0,
              Extant |-> FALSE]

NoOp == [kind |-> "none", name |-> "", arg |-> <<>>, fail |-> 0]
NoRet == [err |-> Nil, val |-> <<>>]

(***************************************************************************)
(* SpecEnv: one EnvVarManager operation on an arbitrary environment table, *)
(* then GetEnvVar to observe what it left.                                 *)
(***************************************************************************)
PathStrs == Strs({"a", "b", ";"}, MaxStrLen)

OddVals == { <<".">>, <<".", ".">>, <<"/">>, <<"\\">>, <<" ">>,
             <<" ", "a">>, <<"a", " ">>, <<" ", "a", ";", "b">>,
             <<"'">>, <<"'", "'">>, <<"a", "'", ";", "b">>, <<"a", "'", "'">>,
             <<"a", ";", "b", ";", "a">> }

EnvVals == PathStrs \cup OddVals \cup {Unset}
EnvArgs == PathStrs \cup OddVals

InitEnv ==
    /\ pc = "ready"
    /\ env \in {e \in [Names -> EnvVals] :
                    e["OCI_LIB64"] = <<"a">> /\ e["TNS_ADMIN"] = Unset}
    /\ env0 = env
    /\ conf = NewConfig
    /\ dirs = {}
    /\ files = {}
    /\ op = NoOp
    /\ ret = NoRet
    /\ extracted = {}
    /\ fatal = ""
    /\ ctx = "live"
    /\ calls = {}

DoSetEnvVar ==
    /\ pc = "ready"
    /\ \E name \in Names, value \in EnvArgs, failAt \in 0..1 :
         LET r == SetEnvVar(env, name, value, failAt)
         IN  /\ env' = r.env
             /\ calls' = calls \cup {"SetEnvVar"}
             /\ op' = [kind |-> "SetEnvVar", name |-> name, arg |-> value, fail |-> failAt]
             /\ ret' = [err |-> r.err, val |-> <<>>]
    /\ pc' = "called"
    /\ UNCHANGED <<env0, conf, dirs, files, extracted, fatal, ctx>>

DoRemoveEnvVar ==
    /\ pc = "ready"
    /\ \E name \in Names, failAt \in 0..1 :
         LET r == RemoveEnvVar(env, name, failAt)
         IN  /\ env' = r.env
             /\ calls' = calls \cup {"RemoveEnvVar"}
             /\ op' = [kind |-> "RemoveEnvVar", name |-> name, arg |-> <<>>, fail |-> failAt]
             /\ ret' = [err |-> r.err, val |-> <<>>]
    /\ pc' = "called"
    /\ UNCHANGED <<env0, conf, dirs, files, extracted, fatal, ctx>>

DoGetEnvVar ==
    /\ pc \in {"ready", "called"}
    /\ \E name \in Names, failAt \in 0..1 :
         /\ calls' = calls \cup {"GetEnvVar"}
         /\ op' = [kind |-> "GetEnvVar", name |-> name, arg |-> <<>>, fail |-> failAt]
         /\ ret' = GetEnvVar(env, name, failAt)
    /\ pc' = "observed"
    /\ UNCHANGED <<env, env0, conf, dirs, files, extracted, fatal, ctx>>

DoAppendToPath ==
    /\ pc = "ready"
    /\ \E newPath \in EnvArgs, failAt \in 0..2 :
         LET r == AppendToPath(env, newPath, failAt)
         IN  /\ env' = r.env
             /\ calls' = calls \cup {"AppendToPath"}
             /\ op' = [kind |-> "AppendToPath", name |-> "PATH", arg |-> newPath, fail |-> failAt]
             /\ ret' = [err |-> r.err, val |-> <<>>]
    /\ pc' = "called"
    /\ UNCHANGED <<env0, conf, dirs, files, extracted, fatal, ctx>>

DoRemoveFromPath ==
    /\ pc = "ready"
    /\ \E pathToRemove \in EnvArgs, failAt \in 0..2 :
         LET r == RemoveFromPath(env, pathToRemove, failAt)
         IN  /\ env' = r.env
             /\ calls' = calls \cup {"RemoveFromPath"}
             /\ op' = [kind |-> "RemoveFromPath", name |-> "PATH", arg |-> pathToRemove, fail |-> failAt]
             /\ ret' = [err |-> r.err, val |-> <<>>]
    /\ pc' = "called"
    /\ UNCHANGED <<env0, conf, dirs, files, extracted, fatal, ctx>>

NextEnv ==
    \/ DoSetEnvVar
    \/ DoRemoveEnvVar
    \/ DoGetEnvVar
    \/ DoAppendToPath
    \/ DoRemoveFromPath

SpecEnv == InitEnv /\ [][NextEnv]_vars

(***************************************************************************)
(* package input: Confirmation.  stdin is the sequence of the lines that   *)
(* can still be read; reading past its end is an EOF error.                *)
(***************************************************************************)
maxAttempts == 3

ToLowerChar(c) == IF c = "Y" THEN "y" ELSE IF c = "N" THEN "n" ELSE c

\* strings.ToLower
ToLower(s) == [i \in 1..Len(s) |-> ToLowerChar(s[i])]

\* bufio.Reader.ReadString('\n') on a console line
ReadString(line) == line \o <<CRLF>>

\* the comparison is case-sensitive
RECURSIVE ConfirmationNoLower(_, _)
ConfirmationNoLower(stdin, attempts) ==
    IF attempts >= maxAttempts
    THEN [returned |-> FALSE, answer |-> FALSE, reads |-> attempts,
          fatal |-> "maximum input attempts exceeded"]
    ELSE IF stdin = <<>>
    THEN [returned |-> FALSE, answer |-> FALSE, reads |-> attempts,
          fatal |-> "error reading input: "]
    ELSE LET s == TrimSpace(ReadString(Head(stdin)))
         IN  IF s = <<"y">>
             THEN [returned |-> TRUE, answer |-> TRUE, reads |-> attempts + 1, fatal |-> ""]
             ELSE IF s = <<"n">>
             THEN [returned |-> TRUE, answer |-> FALSE, reads |-> attempts + 1, fatal |-> ""]
             ELSE ConfirmationNoLower(Tail(stdin), attempts + 1)

\* a fourth line is read after three invalid ones
RECURSIVE ConfirmationOneMore(_, _)
ConfirmationOneMore(stdin, attempts) ==
    IF attempts > maxAttempts
    THEN [returned |-> FALSE, answer |-> FALSE, reads |-> attempts,
          fatal |-> "maximum input attempts exceeded"]
    ELSE IF stdin = <<>>
    THEN [returned |-> FALSE, answer |-> FALSE, reads |-> attempts,
          fatal |-> "error reading input: "]
    ELSE LET s == ToLower(TrimSpace(ReadString(Head(stdin))))
         IN  IF s = <<"y">>
             THEN [returned |-> TRUE, answer |-> TRUE, reads |-> attempts + 1, fatal |-> ""]
             ELSE IF s = <<"n">>
             THEN [returned |-> TRUE, answer |-> FALSE, reads |-> attempts + 1, fatal |-> ""]
             ELSE ConfirmationOneMore(Tail(stdin), attempts + 1)

\* Confirmation from the point where `attempts` invalid lines have been read
RECURSIVE Confirmation(_, _)
Confirmation(stdin, attempts) ==
    IF attempts >= maxAttempts
    THEN [returned |-> FALSE, answer |-> FALSE, reads |-> attempts,
          fatal |-> "maximum input attempts exceeded"]
    ELSE IF stdin = <<>>
    THEN [returned |-> FALSE, answer |-> FALSE, reads |-> attempts,
          fatal |-> "error reading input: "]
    ELSE LET s == ToLower(TrimSpace(ReadString(Head(stdin))))
         IN  IF s = <<"y">>
             THEN [returned |-> TRUE, answer |-> TRUE, reads |-> attempts + 1, fatal |-> ""]
             ELSE IF s = <<"n">>
             THEN [returned |-> TRUE, answer |-> FALSE, reads |-> attempts + 1, fatal |-> ""]
             ELSE Confirmation(Tail(stdin), attempts + 1)

(***************************************************************************)
(* SpecZip: UnZip of an arbitrary archive into an install root.            *)
(***************************************************************************)
InstantClient(major, minor) == <<"instantclient_">> \o major \o <<"_">> \o minor

\* the archives: every sequence of at most MaxEntries entries, each entry a
\* name with the step of extractFile that fails on it, if any
Archives ==
    LET ic == InstantClient(<<"1", "9">>, <<"8">>)
        EntryNames == { ic \o <<"/">>,
                        ic \o <<"/", "oci.dll">>,
                        ic \o <<"/", "sdk", "/">>,
                        InstantClient(<<"2">>, <<"1">>) \o <<"/">>,
                        InstantClient(<<"1", "9", "8">>, <<"1">>) \o <<"/">>,
                        ic,
                        <<"d", "/">> \o ic \o <<"/">>,
                        <<".", ".", "/", "x">>,
                        <<"/", "y">>,
                        <<"readme">> }
        EntryPool == {[name |-> n, fail |-> "none"] : n \in EntryNames}
                     \cup {[name |-> ic \o <<"/", "oci.dll">>, fail |-> x] :
                             x \in {"mkdir", "open", "create", "copy"}}
                     \cup {[name |-> ic \o <<"/">>, fail |-> "mkdir"]}
    IN  {BadZip} \cup UNION {[1..k -> EntryPool] : k \in 0..MaxEntries}

BaseDirs == Ancestors(Cwd)

InitZip ==
    /\ pc = "ready"
    /\ env = [n \in Names |-> Unset]
    /\ env0 = env
    /\ conf \in {[NewConfig EXCEPT !.InstallPath = r] : r \in {defaultInstallPath, <<"ic">>}}
    /\ dirs = BaseDirs
    /\ files = {}
    /\ op = NoOp
    /\ ret = NoRet
    /\ extracted = {}
    /\ fatal = ""
    /\ ctx = "live"
    /\ calls = {}

DoUnZip ==
    /\ pc = "ready"
    /\ \E archive \in Archives, rootFail \in BOOLEAN :
         LET r == UnZip([dirs |-> dirs, files |-> files], archive, conf.InstallPath, rootFail)
         IN  /\ dirs' = r.fs.dirs
             /\ files' = r.fs.files
             /\ extracted' = r.made
             /\ calls' = calls \cup {"UnZip"}
             /\ op' = [kind |-> "UnZip", name |-> "", arg |-> archive,
                       fail |-> IF rootFail THEN 1 ELSE 0]
             /\ ret' = [err |-> r.err, val |-> r.val]
    /\ pc' = "called"
    /\ UNCHANGED <<env, env0, conf, fatal, ctx>>

SpecZip == InitZip /\ [][DoUnZip]_vars

(***************************************************************************)
(* SpecPrompt: Confirmation on arbitrary console input.                    *)
(***************************************************************************)
Inputs ==
    LET LinePool == { <<"y">>, <<"Y">>, <<" ", "y", " ">>, <<"n">>, <<"N">>, <<"n", " ">>,
                      <<"x">>, <<>>, <<"y", "e", "s">>, <<"n", "o">>, <<"y", " ", "n">> }
    IN  UNION {[1..k -> LinePool] : k \in 0..MaxLines}

InitPrompt ==
    /\ pc = "ready"
    /\ env = [n \in Names |-> Unset]
    /\ env0 = env
    /\ conf = NewConfig
    /\ dirs = BaseDirs
    /\ files = {}
    /\ op = NoOp
    /\ ret = NoRet
    /\ extracted = {}
    /\ fatal = ""
    /\ ctx = "live"
    /\ calls = {}

DoConfirmation ==
    /\ pc = "ready"
    /\ \E stdin \in Inputs :
         LET r == Confirmation(stdin, 0)
         IN  /\ calls' = calls \cup {"Confirmation"}
             /\ op' = [kind |-> "Confirmation", name |-> "", arg |-> stdin, fail |-> 0]
             /\ ret' = [err |-> Nil, val |-> [returned |-> r.returned, answer |-> r.answer,
                                             reads |-> r.reads]]
             /\ fatal' = r.fatal
             /\ pc' = IF r.returned THEN "called" ELSE "exited"
    /\ UNCHANGED <<env, env0, conf, dirs, files, extracted, ctx>>

SpecPrompt == InitPrompt /\ [][DoConfirmation]_vars

(***************************************************************************)
(* package config: the setters and Validate                                *)
(***************************************************************************)
\* config.New: main has not set the Downloads path yet
New == [NewConfig EXCEPT !.DownloadsPath = <<>>]

checkPathValidity(path) ==
    ~(path = <<>> \/ path = <<".">> \/ path = <<".", ".">> \/ path = <<"/">> \/ path = <<"\\">>)

SetDownloadsPath(c, path) ==
    IF ~checkPathValidity(path)
    THEN [conf |-> c,
          err |-> HandleError(RawError("downloads path cannot be empty or invalid"),
                              ErrorTypeValidation, "setting downloads path")]
    ELSE [conf |-> [c EXCEPT !.DownloadsPath = path], err |-> Nil]

SetInstallPath(c, path) ==
    IF ~checkPathValidity(path)
    THEN [conf |-> c,
          err |-> HandleError(RawError("install path cannot be empty or invalid"),
                              ErrorTypeValidation, "setting install path")]
    ELSE [conf |-> [c EXCEPT !.InstallPath = path], err |-> Nil]

SetExtant(c, extant) == [conf |-> [c EXCEPT !.Extant = extant], err |-> Nil]

Validate(c) ==
    IF ~checkPathValidity(c.InstallPath)
    THEN HandleError(RawError("install path cannot be empty or invalid"),
                     ErrorTypeValidation, "config validation")
    ELSE IF ~checkPathValidity(c.DownloadsPath)
    THEN HandleError(RawError("downloads path cannot be empty or invalid"),
                     ErrorTypeValidation, "config validation")
    ELSE Nil

(***************************************************************************)
(* package env: the operations that look at the file system                *)
(***************************************************************************)
\* $env:USERPROFILE is the directory the process starts in
FetchUserDownloadsPath(fs, failAt) ==
    IF failAt = 1
    THEN [val |-> <<>>,
          err |-> HandleError(RawError("exec"), ErrorTypeUserPath, "getting user profile directory")]
    ELSE LET usrDownloadsPath == Join(<<TrimSpace(Cwd \o <<CRLF>>), <<"Downloads">>>>)
         IN  IF ~Stat(fs, usrDownloadsPath)
             THEN [val |-> <<>>,
                   err |-> HandleError(RawError("directory does not exist"), ErrorTypeUserPath,
                                       "checking user profile directory")]
             ELSE [val |-> usrDownloadsPath, err |-> Nil]

ValidateEnvVar(e, fs, name, failAt) ==
    LET g == GetEnvVar(e, name, failAt)
    IN  IF IsErrorType(g.err, ErrorTypeEnvVarNotFound) THEN [val |-> <<>>, err |-> g.err]
        ELSE LET path == Clean(g.val)
             IN  IF ~Stat(fs, path)
                 THEN [val |-> <<>>,
                       err |-> HandleError(RawError("points to a non-existent directory"),
                                           ErrorTypeEnvironment, "checking path")]
                 ELSE [val |-> path, err |-> Nil]

(***************************************************************************)
(* package input: InstallPath                                              *)
(***************************************************************************)
\* accepts whatever os.Stat finds, a regular file included
RECURSIVE InstallPathAnyFile(_, _, _)
InstallPathAnyFile(fs, stdin, attempts) ==
    IF attempts >= maxAttempts
    THEN [returned |-> FALSE, path |-> <<>>, reads |-> attempts,
          fatal |-> "maximum input attempts exceeded, installation aborted"]
    ELSE IF stdin = <<>>
    THEN [returned |-> FALSE, path |-> <<>>, reads |-> attempts,
          fatal |-> "error reading input: "]
    ELSE LET path == TrimSpace(ReadString(Head(stdin)))
         IN  IF Stat(fs, path)
             THEN [returned |-> TRUE, path |-> path, reads |-> attempts + 1, fatal |-> ""]
             ELSE InstallPathAnyFile(fs, Tail(stdin), attempts + 1)

RECURSIVE InstallPath(_, _, _)
InstallPath(fs, stdin, attempts) ==
    IF attempts >= maxAttempts
    THEN [returned |-> FALSE, path |-> <<>>, reads |-> attempts,
          fatal |-> "maximum input attempts exceeded, installation aborted"]
    ELSE IF stdin = <<>>
    THEN [returned |-> FALSE, path |-> <<>>, reads |-> attempts,
          fatal |-> "error reading input: "]
    ELSE LET path == TrimSpace(ReadString(Head(stdin)))
         IN  IF IsDir(fs, path)
             THEN [returned |-> TRUE, path |-> path, reads |-> attempts + 1, fatal |-> ""]
             ELSE InstallPath(fs, Tail(stdin), attempts + 1)

(***************************************************************************)
(* package utils: DownloadZip and MigrateFile.  The outcome of the HTTP     *)
(* exchange is [status, fail]: the status code of the response and the     *)
(* step at which the transfer fails ("request": no response at all,        *)
(* "copy": while the body is read, "none": nowhere).  `created` tells that *)
(* os.Create has created or truncated the destination.                     *)
(***************************************************************************)
StatusOK == 200

\* the response of a download that works
Delivered == [status |-> StatusOK, fail |-> "none"]

\* DownloadZip from os.Create on; c: the result of os.Create
DownloadWrite(fs, outcome, c) ==
    IF c.err # Nil
    THEN [fs |-> fs, created |-> FALSE,
          err |-> HandleError(c.err, ErrorTypeDownload, "creating download file")]
    ELSE IF outcome.fail = "copy"
    THEN [fs |-> c.fs, created |-> TRUE,
          err |-> HandleError(RawError("copy"), ErrorTypeDownload, "writing download to file")]
    ELSE [fs |-> c.fs, created |-> TRUE, err |-> Nil]

\* the destination is created before the status is looked at
DownloadZipCreateFirst(fs, ctxDone, outcome, downloadsPath) ==
    IF ctxDone
    THEN [fs |-> fs, created |-> FALSE,
          err |-> HandleError(RawError("context deadline exceeded"),
                              ErrorTypeDownload, "context cancellation")]
    ELSE IF outcome.fail = "request"
    THEN [fs |-> fs, created |-> FALSE,
          err |-> HandleError(RawError("http"), ErrorTypeDownload, "downloading from URL")]
    ELSE IF outcome.status # StatusOK
    THEN [fs |-> Create(fs, downloadsPath).fs, created |-> Create(fs, downloadsPath).err = Nil,
          err |-> HandleError(RawError("HTTP status"), ErrorTypeDownload,
                              "checking response status")]
    ELSE DownloadWrite(fs, outcome, Create(fs, downloadsPath))

DownloadZip(fs, ctxDone, outcome, downloadsPath) ==
    IF ctxDone
    THEN [fs |-> fs, created |-> FALSE,
          err |-> HandleError(RawError("context deadline exceeded"),
                              ErrorTypeDownload, "context cancellation")]
    ELSE IF outcome.fail = "request"
    THEN [fs |-> fs, created |-> FALSE,
          err |-> HandleError(RawError("http"), ErrorTypeDownload, "downloading from URL")]
    ELSE IF outcome.status # StatusOK
    THEN [fs |-> fs, created |-> FALSE,
          err |-> HandleError(RawError("HTTP status"), ErrorTypeDownload,
                              "checking response status")]
    ELSE DownloadWrite(fs, outcome, Create(fs, downloadsPath))

\* moveFile from os.Rename on; src is a regular file wherever it exists
Rename(fs, srcAbs, dstAbs, m) ==
    IF m.err # Nil
    THEN [fs |-> fs, err |-> HandleError(m.err, ErrorTypeInstall,
                               "creating destination directory for tnsnames.ora")]
    ELSE IF dstAbs \in m.fs.dirs
    THEN [fs |-> m.fs, err |-> HandleError(RawError("rename"), ErrorTypeInstall,
                                           "moving tnsnames.ora file")]
    ELSE [fs |-> [m.fs EXCEPT !.files = (@ \ {srcAbs}) \cup {dstAbs}], err |-> Nil]

moveFile(fs, src, dst) ==
    IF ~Stat(fs, src)
    THEN [fs |-> fs, err |-> HandleError(RawError("not exist"), ErrorTypeInstall,
                                         "source tnsnames.ora file does not exist")]
    ELSE Rename(fs, Abs(src), Abs(dst), MkdirAll(fs, Dir(dst)))

\* MigrateFile(from, to, false)
MigrateFile(fs, from, to) == moveFile(fs, from, to)

(***************************************************************************)
(* package oic, most recent version: Exists, Uninstall, Install.  failAt   *)
(* counts the PowerShell invocations of the whole operation.  An operator  *)
(* named after a step takes the result of the call before it.              *)
(***************************************************************************)
pkgFileName == <<"instantclient-basiclite-windows.zip">>
sdkFileName == <<"instantclient-sdk-windows.zip">>
Cancelled == HandleError(RawError("context deadline exceeded"), ErrorTypeInstall,
                         "context cancellation")

\* the tnsnames.ora file is not looked for
ExistsTnsNoFile(fs, c, ociLibPath, tns) ==
    IF \/ tns.err # Nil
       \/ ~Contains(tns.val, ociLibPath)
       \/ tns.val = ociLibPath
       \/ tns.val # Join(<<ociLibPath, <<"network">>, <<"admin">>>>)
    THEN [ok |-> TRUE, err |-> Nil, conf |-> c]
    ELSE [ok |-> TRUE, err |-> Nil, conf |-> SetExtant(c, TRUE).conf]

\* Exists from the TNS_ADMIN check on; c: the configuration with the install
\* path set, tns: the result of ValidateEnvVar("TNS_ADMIN")
ExistsTns(fs, c, ociLibPath, tns) ==
    IF \/ tns.err # Nil
       \/ ~Contains(tns.val, ociLibPath)
       \/ tns.val = ociLibPath
       \/ tns.val # Join(<<ociLibPath, <<"network">>, <<"admin">>>>)
    THEN [ok |-> TRUE, err |-> Nil, conf |-> c]
    ELSE IF ~Stat(fs, Join(<<tns.val, <<"tnsnames.ora">>>>))
    THEN [ok |-> TRUE, err |-> Nil, conf |-> c]
    ELSE [ok |-> TRUE, err |-> Nil, conf |-> SetExtant(c, TRUE).conf]

\* Exists after ValidateEnvVar("OCI_LIB64") returned oci
ExistsLib(e, fs, c, failAt, oci) ==
    IF oci.err # Nil THEN [ok |-> FALSE, err |-> oci.err, conf |-> c]
    ELSE IF IsErrorType(SetInstallPath(c, oci.val).err, ErrorTypeValidation)
    THEN [ok |-> FALSE, err |-> SetInstallPath(c, oci.val).err, conf |-> c]
    ELSE ExistsTns(fs, SetInstallPath(c, oci.val).conf, oci.val,
                   ValidateEnvVar(e, fs, "TNS_ADMIN", failAt - 1))

Exists(e, fs, c, ctxDone, failAt) ==
    IF ctxDone THEN [ok |-> FALSE, err |-> Cancelled, conf |-> c]
    ELSE ExistsLib(e, fs, c, failAt, ValidateEnvVar(e, fs, "OCI_LIB64", failAt))

\* Uninstall after os.RemoveAll returned d
UninstallDir(e, fs, c, d) ==
    IF d.err # Nil
    THEN [env |-> e, fs |-> fs, conf |-> c,
          err |-> HandleError(d.err, ErrorTypeInstall, "removing installation directory")]
    ELSE [env |-> e, fs |-> d.fs, conf |-> SetInstallPath(c, Dir(c.InstallPath)).conf,
          err |-> SetInstallPath(c, Dir(c.InstallPath)).err]

\* Uninstall after RemoveEnvVar("TNS_ADMIN") returned t
UninstallTns(fs, c, t) ==
    IF t.err # Nil THEN [env |-> t.env, fs |-> fs, conf |-> c, err |-> t.err]
    ELSE UninstallDir(t.env, fs, c, RemoveAll(fs, c.InstallPath))

\* Uninstall after RemoveEnvVar("OCI_LIB64") returned o
UninstallLib(fs, c, failAt, o) ==
    IF o.err # Nil THEN [env |-> o.env, fs |-> fs, conf |-> c, err |-> o.err]
    ELSE UninstallTns(fs, c, RemoveEnvVar(o.env, "TNS_ADMIN", failAt - 4))

\* Uninstall after RemoveFromPath returned p
UninstallPath(fs, c, failAt, p) ==
    IF p.err # Nil THEN [env |-> p.env, fs |-> fs, conf |-> c, err |-> p.err]
    ELSE UninstallLib(fs, c, failAt, RemoveEnvVar(p.env, "OCI_LIB64", failAt - 3))

\* Uninstall after GetEnvVar("OCI_LIB64") returned g
UninstallRead(e, fs, c, failAt, g) ==
    IF g.err # Nil
    THEN [env |-> e, fs |-> fs, conf |-> c,
          err |-> IF IsErrorType(g.err, ErrorTypeEnvVarNotFound) THEN Nil ELSE g.err]
    ELSE UninstallPath(fs, c, failAt, RemoveFromPath(e, g.val, failAt - 1))

Uninstall(e, fs, c, ctxDone, failAt) ==
    IF ctxDone THEN [env |-> e, fs |-> fs, conf |-> c, err |-> Cancelled]
    ELSE UninstallRead(e, fs, c, failAt, GetEnvVar(e, "OCI_LIB64", failAt))

\* the comparison is skipped
VersionsAlwaysMatch(pkgDir, sdkDir) == TRUE

\* Install's version check
VersionsMatch(pkgDir, sdkDir) == pkgDir = sdkDir

\* Install's last step; m: the result of MigrateFile
Migrated(e, m) == [env |-> e, fs |-> m.fs, err |-> m.err]

\* Install after SetEnvVar("TNS_ADMIN") returned t
ConfigureTns(fs, c, tnsAdminPath, t) ==
    IF t.err # Nil THEN [env |-> t.env, fs |-> fs, err |-> t.err]
    ELSE IF c.Extant
    THEN Migrated(t.env, MigrateFile(fs, Join(<<c.DownloadsPath, <<"tnsnames.ora">>>>),
                                     Join(<<tnsAdminPath, <<"tnsnames.ora">>>>)))
    ELSE [env |-> t.env, fs |-> fs, err |-> Nil]

\* Install after AppendToPath returned a
ConfigurePath(fs, c, tnsAdminPath, failAt, a) ==
    IF a.err # Nil THEN [env |-> a.env, fs |-> fs, err |-> a.err]
    ELSE ConfigureTns(fs, c, tnsAdminPath, SetEnvVar(a.env, "TNS_ADMIN", tnsAdminPath, failAt - 3))

\* Install after SetEnvVar("OCI_LIB64") returned o
ConfigureLib(fs, c, ociLibPath, failAt, o) ==
    IF o.err # Nil THEN [env |-> o.env, fs |-> fs, err |-> o.err]
    ELSE ConfigurePath(fs, c, Join(<<ociLibPath, <<"network">>, <<"admin">>>>), failAt,
                       AppendToPath(o.env, ociLibPath, failAt - 1))

\* Install's configuration steps
Configure(e, fs, c, pkgDir, failAt) ==
    ConfigureLib(fs, c, Join(<<c.InstallPath, pkgDir>>), failAt,
                 SetEnvVar(e, "OCI_LIB64", Join(<<c.InstallPath, pkgDir>>), failAt))

\* Install's result after the configuration steps returned g
Configured(made, dirNames, g) ==
    [env |-> g.env, fs |-> g.fs, made |-> made, val |-> dirNames, err |-> g.err]

\* Install after the two UnZip calls returned p and k
InstallVerify(e, c, failAt, p, k) ==
    IF k.err # Nil
    THEN [env |-> e, fs |-> k.fs, made |-> p.made \cup k.made,
          val |-> [pkgDir |-> p.val, sdkDir |-> <<>>],
          err |-> HandleError(k.err, ErrorTypeInstall, "unzip SDK")]
    ELSE IF ~VersionsMatch(p.val, k.val)
    THEN [env |-> e, fs |-> k.fs, made |-> p.made \cup k.made,
          val |-> [pkgDir |-> p.val, sdkDir |-> k.val],
          err |-> HandleError(RawError("package version does not match SDK version"),
                              ErrorTypeInstall, "version verification")]
    ELSE Configured(p.made \cup k.made, [pkgDir |-> p.val, sdkDir |-> k.val],
                    Configure(e, k.fs, c, p.val, failAt))

\* Install after UnZip of the package returned p
InstallSdk(e, c, sdk, failAt, p) ==
    IF p.err # Nil
    THEN [env |-> e, fs |-> p.fs, made |-> p.made, val |-> [pkgDir |-> <<>>, sdkDir |-> <<>>],
          err |-> HandleError(p.err, ErrorTypeInstall, "unzip package")]
    ELSE InstallVerify(e, c, failAt, p, UnZip(p.fs, sdk, c.InstallPath, FALSE))

\* Install after a download returned d with an error
DownloadFailed(e, d) ==
    [env |-> e, fs |-> d.fs, err |-> d.err, made |-> {},
     val |-> [pkgDir |-> <<>>, sdkDir |-> <<>>]]

\* Install after the second DownloadZip returned d2
InstallPkg(e, c, pkg, sdk, failAt, d2) ==
    IF d2.err # Nil THEN DownloadFailed(e, d2)
    ELSE InstallSdk(e, c, sdk, failAt, UnZip(d2.fs, pkg, c.InstallPath, FALSE))

\* Install after the first DownloadZip returned d1
InstallSecond(e, c, dl, pkg, sdk, failAt, d1) ==
    IF d1.err # Nil THEN DownloadFailed(e, d1)
    ELSE InstallPkg(e, c, pkg, sdk, failAt,
                    DownloadZip(d1.fs, FALSE, dl[2], Join(<<c.DownloadsPath, sdkFileName>>)))

\* starts the downloads without looking at the context
InstallUnchecked(e, fs, c, ctxDone, dl, pkg, sdk, failAt) ==
    InstallSecond(e, c, dl, pkg, sdk, failAt,
                  DownloadZip(fs, FALSE, dl[1], Join(<<c.DownloadsPath, pkgFileName>>)))

\* dl: the outcomes of the two downloads; pkg, sdk: the archives they deliver
Install(e, fs, c, ctxDone, dl, pkg, sdk, failAt) ==
    IF ctxDone
    THEN [env |-> e, fs |-> fs, err |-> Cancelled, made |-> {},
          val |-> [pkgDir |-> <<>>, sdkDir |-> <<>>]]
    ELSE InstallSecond(e, c, dl, pkg, sdk, failAt,
                       DownloadZip(fs, FALSE, dl[1], Join(<<c.DownloadsPath, pkgFileName>>)))

(***************************************************************************)
(* package main: the two handlers.  Each Confirmation and InstallPath call *)
(* reads the lines the user types at that prompt.  `asked` lists, for each  *)
(* prompt the handler has shown, the number of lines read at it.           *)
(***************************************************************************)
\* the result r of the rest of a handler, after a prompt at which `reads`
\* lines were read
Prompted(reads, r) == [r EXCEPT !.asked = <<reads>> \o @]

\* handleCurrentInstall, the answer "no"; s: the result of SetInstallPath
KeepInstall(e, fs, s) ==
    [env |-> e, fs |-> fs, conf |-> s.conf, fatal |-> "", asked |-> <<>>,
     err |-> HandleError(s.err, ErrorTypeValidation,
                         "setting install path to existing installation base directory"),
     called |-> {"Exists", "Confirmation"}]

\* handleCurrentInstall, the answer "yes"; u: the result of Uninstall
Overwrite(u) ==
    [env |-> u.env, fs |-> u.fs, conf |-> u.conf, fatal |-> "", asked |-> <<>>,
     err |-> HandleError(u.err, ErrorTypeInstall, "uninstalling existing Oracle InstantClient"),
     called |-> {"Exists", "Confirmation", "Uninstall"}]

\* the answer "no" leaves the install path at the library directory
CurrentInstallInPlace(e, fs, ctxDone, failAtU, x, q) ==
    IF ~x.ok
    THEN [env |-> e, fs |-> fs, conf |-> x.conf, err |-> Nil, fatal |-> "",
          asked |-> <<>>, called |-> {"Exists"}]
    ELSE IF ~q.returned
    THEN [env |-> e, fs |-> fs, conf |-> x.conf, err |-> Nil, fatal |-> q.fatal,
          asked |-> <<q.reads>>, called |-> {"Exists", "Confirmation"}]
    ELSE IF ~q.answer
    THEN Prompted(q.reads, KeepInstall(e, fs, SetInstallPath(x.conf, x.conf.InstallPath)))
    ELSE Prompted(q.reads, Overwrite(Uninstall(e, fs, x.conf, ctxDone, failAtU)))

\* handleCurrentInstall after Exists returned x; q: what Confirmation returns
CurrentInstall(e, fs, ctxDone, failAtU, x, q) ==
    IF ~x.ok
    THEN [env |-> e, fs |-> fs, conf |-> x.conf, err |-> Nil, fatal |-> "",
          asked |-> <<>>, called |-> {"Exists"}]
    ELSE IF ~q.returned
    THEN [env |-> e, fs |-> fs, conf |-> x.conf, err |-> Nil, fatal |-> q.fatal,
          asked |-> <<q.reads>>, called |-> {"Exists", "Confirmation"}]
    ELSE IF ~q.answer
    THEN Prompted(q.reads, KeepInstall(e, fs, SetInstallPath(x.conf, Dir(x.conf.InstallPath))))
    ELSE Prompted(q.reads, Overwrite(Uninstall(e, fs, x.conf, ctxDone, failAtU)))

handleCurrentInstall(e, fs, c, ctxDone, failAt, failAtU, stdin) ==
    CurrentInstall(e, fs, ctxDone, failAtU, Exists(e, fs, c, ctxDone, failAt),
                   Confirmation(stdin, 0))

\* handleInstallLocation from "Continue with install?" on; q3: the answer
Continue(c, q3) ==
    IF ~q3.returned THEN [conf |-> c, err |-> Nil, fatal |-> q3.fatal, asked |-> <<q3.reads>>]
    ELSE IF ~q3.answer
    THEN [conf |-> c, fatal |-> "", asked |-> <<q3.reads>>,
          err |-> HandleError(RawError("installation aborted by user"),
                              ErrorTypeValidation, "user confirmation")]
    ELSE [conf |-> c, err |-> Nil, fatal |-> "", asked |-> <<q3.reads>>]

\* handleInstallLocation after input.InstallPath returned np
NewLocation(c, np, s, q3) ==
    IF ~np.returned THEN [conf |-> c, err |-> Nil, fatal |-> np.fatal, asked |-> <<np.reads>>]
    ELSE IF IsErrorType(s.err, ErrorTypeValidation)
    THEN [conf |-> c, fatal |-> "", asked |-> <<np.reads>>,
          err |-> HandleError(s.err, ErrorTypeValidation, "setting user-defined install path")]
    ELSE Prompted(np.reads, Continue(s.conf, q3))

\* handleInstallLocation after the first answer was "no"; q2, q3: the answers
\* to the second and third prompt, np: what input.InstallPath returns
ChangeLocation(c, q2, np, q3) ==
    IF ~q2.returned THEN [conf |-> c, err |-> Nil, fatal |-> q2.fatal, asked |-> <<q2.reads>>]
    ELSE IF q2.answer
    THEN Prompted(q2.reads, NewLocation(c, np, SetInstallPath(c, np.path), q3))
    ELSE Prompted(q2.reads, Continue(c, q3))

\* handleInstallLocation after the first prompt returned q1
AcceptLocation(fs, c, q1, change, pathIn, cont) ==
    IF ~q1.returned THEN [conf |-> c, err |-> Nil, fatal |-> q1.fatal, asked |-> <<q1.reads>>]
    ELSE IF q1.answer THEN [conf |-> c, err |-> Nil, fatal |-> "", asked |-> <<q1.reads>>]
    ELSE Prompted(q1.reads,
                  ChangeLocation(c, Confirmation(change, 0), InstallPath(fs, pathIn, 0),
                                 Confirmation(cont, 0)))

handleInstallLocation(fs, c, accept, change, pathIn, cont) ==
    AcceptLocation(fs, c, Confirmation(accept, 0), change, pathIn, cont)

\* the message main's switch gives log.Fatal for an error of Install
InstallFatal(err) ==
    IF err[1].type = ErrorTypeDownload THEN "download failed: "
    ELSE IF err[1].type = ErrorTypeInstall THEN "installation failed: "
    ELSE IF err[1].type = ErrorTypeEnvironment THEN "environment setup failed: "
    ELSE "unknown error: "

(***************************************************************************)
(* The machines the program runs on                                        *)
(***************************************************************************)
OldRoot == <<"C:", "\\", "OraClient">>
OldLib == OldRoot \o <<"\\">> \o InstantClient(<<"1", "9">>, <<"3">>)
OldTns == OldLib \o <<"\\", "network", "\\", "admin">>
DriveRoot == <<"C:", "\\">>
QuoteDir == <<"C:", "\\", "a", "'", "'", "b">>
WinDir == <<"C:", "\\", "Windows">>

\* the file systems: no Downloads directory; a fresh user; an installation
\* without and with tnsnames.ora; one with a tnsnames.ora saved in Downloads
Machines ==
    LET bare == [dirs |-> BaseDirs \cup {WinDir}, files |-> {}]
        user == [bare EXCEPT !.dirs = @ \cup {DownloadsPath0, QuoteDir}]
        tns == [dirs |-> user.dirs \cup Ancestors(OldTns),
                files |-> {OldTns \o <<"\\", "tnsnames.ora">>}]
    IN  { bare, user,
          [user EXCEPT !.dirs = @ \cup Ancestors(OldLib)],
          tns,
          [tns EXCEPT !.files = @ \cup {DownloadsPath0 \o <<"\\", "tnsnames.ora">>}] }

\* the user environment: no installation (PATH unset, or set, or naming the
\* sdk directory of a library directory), an installation under OldRoot, or
\* OCI_LIB64 pointing at the root of the drive or, without a drive letter, at
\* a directory just below it
Tables ==
    {[OCI_LIB64 |-> Unset, TNS_ADMIN |-> Unset, PATH |-> p] :
        p \in {Unset, WinDir,
               WinDir \o <<";">> \o OldRoot \o <<"\\">> \o InstantClient(<<"1", "9">>, <<"8">>)
                      \o <<"\\", "sdk">>}}
    \cup {[OCI_LIB64 |-> OldLib, TNS_ADMIN |-> t, PATH |-> p] :
            t \in {Unset, OldTns}, p \in {WinDir, WinDir \o <<";">> \o OldLib \o <<";">>}}
    \cup {[OCI_LIB64 |-> d, TNS_ADMIN |-> Unset, PATH |-> WinDir] :
            d \in {DriveRoot, <<"\\", "OraClient">>}}

\* what the user types at one Confirmation prompt
Replies == { << <<"y">> >>, << <<"n">> >>, << <<"x">>, <<"x">>, <<"x">> >>,
             << <<"x">>, <<"x">>, <<"x">>, <<"y">> >> }

\* the archives the download site delivers
GoodPkg ==
    << [name |-> InstantClient(<<"1", "9">>, <<"8">>) \o <<"/">>, fail |-> "none"],
       [name |-> InstantClient(<<"1", "9">>, <<"8">>) \o <<"/", "oci.dll">>, fail |-> "none"] >>
GoodSdk ==
    << [name |-> InstantClient(<<"1", "9">>, <<"8">>) \o <<"/">>, fail |-> "none"],
       [name |-> InstantClient(<<"1", "9">>, <<"8">>) \o <<"/", "sdk", "/">>, fail |-> "none"] >>
\* what Install meets: every pair of archives, or one failing download, or
\* one failing PowerShell invocation
InstallRuns ==
    LET other == << [name |-> InstantClient(<<"2">>, <<"1">>) \o <<"/">>, fail |-> "none"] >>
        PkgArchives == { GoodPkg, other, [GoodPkg EXCEPT ![2].fail = "copy"],
                         << [name |-> <<"readme">>, fail |-> "none"] >>, BadZip }
        SdkArchives == { GoodSdk, other, BadZip }
        Downloads == { <<Delivered, Delivered>>,
                       <<[Delivered EXCEPT !.fail = "request"], Delivered>>,
                       <<Delivered, [Delivered EXCEPT !.status = 404]>>,
                       <<Delivered, [Delivered EXCEPT !.fail = "copy"]>> }
    IN  {[dl |-> <<Delivered, Delivered>>, pkg |-> p, sdk |-> k, failAt |-> 0] :
            p \in PkgArchives, k \in SdkArchives}
        \cup {[dl |-> d, pkg |-> GoodPkg, sdk |-> GoodSdk, failAt |-> 0] : d \in Downloads}
        \cup {[dl |-> <<Delivered, Delivered>>, pkg |-> GoodPkg, sdk |-> GoodSdk,
                failAt |-> f] : f \in 1..4}

\* what the user types at the prompts of handleInstallLocation: the location
\* accepted (or no answer given); the change declined; a new path entered
Dialogues ==
    LET yes == << <<"y">> >>
        no == << <<"n">> >>
        PathReplies == { << QuoteDir >>, << <<"nowhere">>, Cwd >>,
                         << <<"nowhere">>, <<"nowhere">>, <<"nowhere">>, QuoteDir >> }
    IN  {[accept |-> a, change |-> yes, pathIn |-> << QuoteDir >>, cont |-> yes] :
            a \in Replies \ {no}}
        \cup {[accept |-> no, change |-> g, pathIn |-> << QuoteDir >>, cont |-> c] :
                g \in Replies \ {yes}, c \in Replies}
        \cup {[accept |-> no, change |-> yes, pathIn |-> p, cont |-> c] :
                p \in PathReplies, c \in Replies}

(***************************************************************************)
(* Spec: one run of main                                                   *)
(***************************************************************************)
Init ==
    /\ pc = "main"
    /\ env \in Tables
    /\ env0 = env
    /\ conf = New
    /\ \E fs \in Machines : dirs = fs.dirs /\ files = fs.files
    /\ op = NoOp
    /\ ret = NoRet
    /\ extracted = {}
    /\ fatal = ""
    /\ ctx = "live"
    /\ calls = {}

\* log.Fatal(prefix, err), or the step to `next` when err is nil
Proceed(err, prefix, next) ==
    /\ pc' = IF err = Nil THEN next ELSE "exited"
    /\ fatal' = IF err = Nil THEN "" ELSE prefix

\* main up to SetDownloadsPath
Main ==
    /\ pc = "main"
    /\ \E failAt \in 0..1 :
         LET d == FetchUserDownloadsPath([dirs |-> dirs, files |-> files], failAt)
             s == SetDownloadsPath(conf, d.val)
         IN  /\ op' = [kind |-> "main", name |-> "", arg |-> <<>>, fail |-> failAt]
             /\ IF d.err # Nil
                THEN /\ Proceed(d.err, "error getting user Downloads directory: ", "current")
                     /\ ret' = [err |-> d.err, val |-> <<>>]
                     /\ conf' = conf
                ELSE /\ Proceed(IF IsErrorType(s.err, ErrorTypeValidation) THEN s.err ELSE Nil,
                                "error setting Downloads path: ", "current")
                     /\ ret' = [err |-> s.err, val |-> <<>>]
                     /\ conf' = s.conf
    /\ calls' = calls \cup {"FetchUserDownloadsPath"}
    /\ UNCHANGED <<env, env0, dirs, files, extracted, ctx>>

HandleCurrentInstall ==
    /\ pc = "current"
    \* run: the PowerShell invocation that fails in Exists, or in Uninstall, if any
    /\ \E run \in {[failAt |-> f, failAtU |-> 0] : f \in 0..2}
                   \cup {[failAt |-> 0, failAtU |-> u] : u \in 1..5},
          stdin \in Replies :
         LET r == handleCurrentInstall(env, [dirs |-> dirs, files |-> files], conf,
                                       ctx = "done", run.failAt, run.failAtU, stdin)
         IN  /\ env' = r.env
             /\ dirs' = r.fs.dirs
             /\ files' = r.fs.files
             /\ conf' = r.conf
             /\ calls' = calls \cup r.called
             /\ op' = [kind |-> "handleCurrentInstall", name |-> "", arg |-> <<>>, fail |-> 0]
             /\ ret' = [err |-> r.err, val |-> r.asked]
             /\ IF r.fatal # ""
                THEN pc' = "exited" /\ fatal' = r.fatal
                ELSE Proceed(r.err, "error handling current installation: ", "location")
    /\ UNCHANGED <<env0, extracted, ctx>>

HandleInstallLocation ==
    /\ pc = "location"
    /\ \E d \in Dialogues :
         LET r == handleInstallLocation([dirs |-> dirs, files |-> files], conf,
                                        d.accept, d.change, d.pathIn, d.cont)
         IN  /\ conf' = r.conf
             /\ op' = [kind |-> "handleInstallLocation", name |-> "", arg |-> <<>>, fail |-> 0]
             /\ ret' = [err |-> r.err, val |-> r.asked]
             /\ IF r.fatal # ""
                THEN pc' = "exited" /\ fatal' = r.fatal
                ELSE Proceed(r.err, "error handling install location: ", "validate")
    /\ calls' = calls \cup {"Confirmation"}
    /\ UNCHANGED <<env, env0, dirs, files, extracted, ctx>>

ValidateConfig ==
    /\ pc = "validate"
    /\ op' = [kind |-> "Validate", name |-> "", arg |-> <<>>, fail |-> 0]
    /\ ret' = [err |-> Validate(conf), val |-> <<>>]
    /\ Proceed(Validate(conf), "invalid configuration: ", "install")
    /\ calls' = calls \cup {"Validate"}
    /\ UNCHANGED <<env, env0, conf, dirs, files, extracted, ctx>>

RunInstall ==
    /\ pc = "install"
    /\ \E run \in InstallRuns :
         LET r == Install(env, [dirs |-> dirs, files |-> files], conf, ctx = "done",
                          run.dl, run.pkg, run.sdk, run.failAt)
         IN  /\ env' = r.env
             /\ dirs' = r.fs.dirs
             /\ files' = r.fs.files
             /\ extracted' = r.made
             /\ op' = [kind |-> "Install", name |-> "", arg |-> <<run.pkg, run.sdk>>,
                       fail |-> run.failAt]
             /\ ret' = [err |-> r.err, val |-> r.val]
             /\ pc' = IF r.err = Nil THEN "done" ELSE "exited"
             /\ fatal' = IF r.err = Nil THEN "" ELSE InstallFatal(r.err)
    /\ calls' = calls \cup {"Install"}
    /\ UNCHANGED <<env0, conf, ctx>>

\* the five minutes of main's context pass
Timeout ==
    /\ pc \in {"main", "current", "location", "validate", "install"}
    /\ ctx = "live"
    /\ ctx' = "done"
    /\ UNCHANGED <<pc, env, env0, conf, dirs, files, op, ret, extracted, fatal, calls>>

Next ==
    \/ Main
    \/ HandleCurrentInstall
    \/ HandleInstallLocation
    \/ ValidateConfig
    \/ RunInstall
    \/ Timeout

Spec == Init /\ [][Next]_vars

\* Every call main makes returns, so a run that can take a step takes one:
\* weak fairness of Next.  A step of Next is possible exactly as long as main
\* has not ended, so WF_vars(Next) is written with that state predicate in the
\* place of ENABLED <<Next>>_vars.
FairSpec == Spec /\ ([]<>(pc \in {"done", "exited"}) \/ []<><<Next>>_vars)

(***************************************************************************)
(* SpecUninstall: Uninstall called with an arbitrary configuration         *)
(***************************************************************************)
\* the user environment: that of a run of main, or one in which OCI_LIB64 is
\* blank or degenerate while TNS_ADMIN and PATH still name the installation
InitUninstall ==
    /\ pc = "ready"
    /\ env \in Tables \cup {[OCI_LIB64 |-> d, TNS_ADMIN |-> OldTns,
                             PATH |-> WinDir \o <<";">> \o OldLib \o <<";">>] :
                               d \in {<<" ">>, <<".">>, <<".", ".">>, <<"/">>, <<"\\">>}}
    /\ env0 = env
    /\ conf \in {[NewConfig EXCEPT !.InstallPath = d] :
                   d \in { <<>>, <<".">>, <<"/">>, <<"\\">>, <<".", ".">>, OldLib, OldRoot,
                           <<"ic">> }}
    /\ \E fs \in Machines : dirs = fs.dirs /\ files = fs.files
    /\ op = NoOp
    /\ ret = NoRet
    /\ extracted = {}
    /\ fatal = ""
    /\ ctx \in {"live", "done"}
    /\ calls = {}

DoUninstall ==
    /\ pc = "ready"
    /\ \E failAt \in 0..5 :
         LET r == Uninstall(env, [dirs |-> dirs, files |-> files], conf, ctx = "done", failAt)
         IN  /\ env' = r.env
             /\ dirs' = r.fs.dirs
             /\ files' = r.fs.files
             /\ conf' = r.conf
             /\ calls' = calls \cup {"Uninstall"}
             /\ op' = [kind |-> "Uninstall", name |-> "", arg |-> conf.InstallPath,
                       fail |-> failAt]
             /\ ret' = [err |-> r.err, val |-> <<>>]
    /\ pc' = "called"
    /\ UNCHANGED <<env0, extracted, fatal, ctx>>

SpecUninstall == InitUninstall /\ [][DoUninstall]_vars

(***************************************************************************)
(* SpecCurrent: handleCurrentInstall in an arbitrary user environment.     *)
(* ret.val keeps what Exists returned to the handler.                      *)
(***************************************************************************)
\* values of OCI_LIB64: none, blank, `.`, the library directory in two
\* spellings, a path that does not exist, the drive root, a regular file;
\* values of TNS_ADMIN: none, network\admin below the library directory in
\* two spellings, the library directory, its network directory, a directory
\* elsewhere, a path that does not exist
InitCurrent ==
    /\ pc = "current"
    /\ LET LibVals == { Unset, <<" ">>, <<".">>, OldLib,
                        <<"C:", "/", "OraClient", "/">>
                            \o InstantClient(<<"1", "9">>, <<"3">>) \o <<"/">>,
                        <<"nowhere">>, DriveRoot, OldTns \o <<"\\", "tnsnames.ora">> }
           TnsVals == { Unset, OldTns, OldLib \o <<"/", "network", "/", "admin", "/">>,
                        OldLib, OldLib \o <<"\\", "network">>, WinDir, <<"nowhere">> }
       IN  env \in {[OCI_LIB64 |-> l, TNS_ADMIN |-> t, PATH |-> WinDir] :
                       l \in LibVals, t \in TnsVals}
    /\ env0 = env
    /\ conf = NewConfig
    /\ \E fs \in Machines \cup {[dirs |-> BaseDirs \cup Ancestors(OldTns), files |-> {}]} :
         dirs = fs.dirs /\ files = fs.files
    /\ op = NoOp
    /\ ret = NoRet
    /\ extracted = {}
    /\ fatal = ""
    /\ ctx \in {"live", "done"}
    /\ calls = {}

DoHandleCurrentInstall ==
    /\ pc = "current"
    /\ \E failAt \in 0..2, stdin \in Replies :
         LET x == Exists(env, [dirs |-> dirs, files |-> files], conf, ctx = "done", failAt)
             r == handleCurrentInstall(env, [dirs |-> dirs, files |-> files], conf,
                                       ctx = "done", failAt, 0, stdin)
         IN  /\ env' = r.env
             /\ dirs' = r.fs.dirs
             /\ files' = r.fs.files
             /\ conf' = r.conf
             /\ calls' = calls \cup r.called
             /\ op' = [kind |-> "handleCurrentInstall", name |-> "", arg |-> stdin,
                       fail |-> failAt]
             /\ ret' = [err |-> r.err, val |-> [ok |-> x.ok, err |-> x.err, conf |-> x.conf]]
             /\ fatal' = r.fatal
             /\ pc' = IF r.fatal # "" \/ r.err # Nil THEN "exited" ELSE "location"
    /\ UNCHANGED <<env0, extracted, ctx>>

SpecCurrent == InitCurrent /\ [][DoHandleCurrentInstall]_vars

(***************************************************************************)
(* package install, the version with Remove, and the handleCurrentInstall  *)
(* that calls it.  The configuration is written to directly, without       *)
(* SetInstallPath.                                                         *)
(***************************************************************************)
\* the paths Exists and Remove refuse: "", "/", "\\" and "."
Critical == {<<>>, <<"/">>, <<"\\">>, <<".">>}

\* Exists: a library directory that does not exist is only reported, and
\* so is a TNS_ADMIN that is not set.  Lib, Tns: the rest of Exists once
\* GetEnvVar("OCI_LIB64") and GetEnvVar("TNS_ADMIN") have returned;
\* Checked: from the comparison of the two cleaned paths on
InstallExists(e, fs, c, ctxDone, failAt) ==
    LET No(err) == [ok |-> FALSE, err |-> err, conf |-> c]
        Checked(ociLibPath, tnsAdminPath) ==
            IF /\ ~(/\ Contains(tnsAdminPath, ociLibPath)
                    /\ tnsAdminPath # ociLibPath
                    /\ tnsAdminPath = Join(<<ociLibPath, <<"network">>, <<"admin">>>>))
               /\ ~Stat(fs, tnsAdminPath)
            THEN No(Nil)
            ELSE IF ociLibPath \in Critical
            THEN No(HandleError(RawError("OCI_LIB64 does not point to a valid installation path"),
                                ErrorTypeInstall, "validating OCI_LIB64 path"))
            ELSE [ok |-> TRUE, err |-> Nil, conf |-> [c EXCEPT !.InstallPath = ociLibPath]]
        Tns(ociLibPath, tns) ==
            IF tns.err # Nil /\ ~IsErrorType(tns.err, ErrorTypeEnvVarNotFound)
            THEN No(HandleError(tns.err, ErrorTypeEnvironment,
                                "getting TNS_ADMIN environment variable"))
            ELSE Checked(ociLibPath, Clean(tns.val))
        Lib(oci) ==
            IF oci.err # Nil
            THEN No(IF IsErrorType(oci.err, ErrorTypeEnvVarNotFound) THEN Nil
                    ELSE HandleError(oci.err, ErrorTypeEnvironment,
                                     "getting OCI_LIB64 environment variable"))
            ELSE IF oci.val = <<>> THEN No(Nil)
            ELSE Tns(Clean(oci.val), GetEnvVar(e, "TNS_ADMIN", failAt - 1))
    IN  IF ctxDone THEN No(Cancelled)
        ELSE Lib(GetEnvVar(e, "OCI_LIB64", failAt))

\* Remove.  Read, Path, Lib, Tns, Deleted: the rest of Remove once
\* GetEnvVar("OCI_LIB64"), RemoveFromPath, RemoveEnvVar("OCI_LIB64"),
\* RemoveEnvVar("TNS_ADMIN") and os.RemoveAll have returned
Remove(e, fs, c, ctxDone, failAt) ==
    LET Failed(env1, err) == [env |-> env1, fs |-> fs, conf |-> c, err |-> err]
        Deleted(env1, d) ==
            IF d.err # Nil
            THEN Failed(env1, HandleError(d.err, ErrorTypeInstall,
                                          "removing installation directory"))
            ELSE [env |-> env1, fs |-> d.fs,
                  conf |-> [c EXCEPT !.InstallPath = Dir(c.InstallPath)],
                  err |-> IF Dir(c.InstallPath) \in Critical
                          THEN HandleError(
                                 RawError("installation path reset to a critical directory"),
                                 ErrorTypeInstall, "resetting installation path")
                          ELSE Nil]
        Tns(t) ==
            IF t.err # Nil
            THEN Failed(t.env, HandleError(t.err, ErrorTypeEnvironment, "removing TNS_ADMIN"))
            ELSE IF c.InstallPath \in Critical
            THEN Failed(t.env, HandleError(RawError("refusing to remove critical directory"),
                                           ErrorTypeInstall, "removing installation directory"))
            ELSE Deleted(t.env, RemoveAll(fs, c.InstallPath))
        Lib(o) ==
            IF o.err # Nil
            THEN Failed(o.env, HandleError(o.err, ErrorTypeEnvironment, "removing OCI_LIB64"))
            ELSE Tns(RemoveEnvVar(o.env, "TNS_ADMIN", failAt - 4))
        Path(p) ==
            IF p.err # Nil
            THEN Failed(p.env, HandleError(p.err, ErrorTypeEnvironment,
                                           "removing OCI_LIB64 from PATH"))
            ELSE Lib(RemoveEnvVar(p.env, "OCI_LIB64", failAt - 3))
        Read(g) ==
            IF g.err # Nil
            THEN Failed(e, IF IsErrorType(g.err, ErrorTypeEnvVarNotFound) THEN Nil
                           ELSE HandleError(g.err, ErrorTypeEnvironment,
                                            "getting OCI_LIB64 environment variable"))
            ELSE Path(RemoveFromPath(e, g.val, failAt - 1))
    IN  IF ctxDone THEN Failed(e, Cancelled)
        ELSE Read(GetEnvVar(e, "OCI_LIB64", failAt))

\* handleCurrentInstall after Exists returned x: whenever Exists says no the
\* handler returns nil, whatever the error; otherwise the install path is
\* moved to its parent before the prompt.  q: what Confirmation returns
CurrentInstallRemove(e, fs, ctxDone, failAtR, x, q) ==
    LET c == [x.conf EXCEPT !.InstallPath = Dir(x.conf.InstallPath)]
    IN  IF ~x.ok
        THEN [env |-> e, fs |-> fs, conf |-> x.conf, err |-> Nil, fatal |-> "",
              called |-> {"Exists"}]
        ELSE IF ~q.returned
        THEN [env |-> e, fs |-> fs, conf |-> c, err |-> Nil, fatal |-> q.fatal,
              called |-> {"Exists", "Confirmation"}]
        ELSE IF ~q.answer
        THEN [env |-> e, fs |-> fs, conf |-> c, err |-> Nil, fatal |-> "",
              called |-> {"Exists", "Confirmation"}]
        ELSE LET r == Remove(e, fs, c, ctxDone, failAtR)
             IN  [env |-> r.env, fs |-> r.fs, conf |-> r.conf, fatal |-> "",
                  err |-> HandleError(r.err, ErrorTypeInstall,
                                      "uninstalling existing Oracle InstantClient"),
                  called |-> {"Exists", "Confirmation", "Remove"}]

(***************************************************************************)
(* SpecRemove: that handleCurrentInstall in an arbitrary user environment. *)
(* ret.val keeps the cleaned path Exists found in OCI_LIB64.               *)
(***************************************************************************)
\* OCI_LIB64: none, the library directory in two spellings, a directory
\* that is not there, a directory just below the drive root, the drive root;
\* TNS_ADMIN: none, network\admin below the library directory, elsewhere
InitRemove ==
    /\ pc = "current"
    /\ env \in {[OCI_LIB64 |-> l, TNS_ADMIN |-> t,
                  PATH |-> WinDir \o <<";">> \o OldLib \o <<";">>] :
                  l \in { Unset, OldLib, OldLib \o <<"\\">>, OldRoot \o <<"\\", "gone">>,
                          OldRoot, DriveRoot },
                  t \in { Unset, OldTns, WinDir, <<"nowhere">> }}
    /\ env0 = env
    /\ conf = NewConfig
    /\ \E fs \in Machines : dirs = fs.dirs /\ files = fs.files
    /\ op = NoOp
    /\ ret = NoRet
    /\ extracted = {}
    /\ fatal = ""
    /\ ctx \in {"live", "done"}
    /\ calls = {}

DoHandleCurrentInstallRemove ==
    /\ pc = "current"
    /\ \E failAt \in 0..2, failAtR \in 0..5, stdin \in Replies :
         LET x == InstallExists(env, [dirs |-> dirs, files |-> files], conf,
                                ctx = "done", failAt)
             r == CurrentInstallRemove(env, [dirs |-> dirs, files |-> files],
                                       ctx = "done", failAtR, x, Confirmation(stdin, 0))
         IN  /\ env' = r.env
             /\ dirs' = r.fs.dirs
             /\ files' = r.fs.files
             /\ conf' = r.conf
             /\ calls' = calls \cup r.called
             /\ op' = [kind |-> "handleCurrentInstall", name |-> "", arg |-> stdin,
                       fail |-> failAtR]
             /\ ret' = [err |-> r.err, val |-> IF x.ok THEN x.conf.InstallPath ELSE <<>>]
             /\ fatal' = r.fatal
             /\ pc' = IF r.fatal # "" \/ r.err # Nil THEN "exited" ELSE "location"
    /\ UNCHANGED <<env0, extracted, ctx>>

SpecRemove == InitRemove /\ [][DoHandleCurrentInstallRemove]_vars

(***************************************************************************)
(* package install, the version that saves tnsnames.ora: the configuration *)
(* has the field Overwrite besides Extant.                                 *)
(***************************************************************************)
\* Moved: moveTNSNamesFile once os.MkdirAll has returned m
moveTNSNamesFile(fs, from, to) ==
    LET Moved(m) ==
            IF m.err # Nil
            THEN [fs |-> fs, err |-> HandleError(m.err, ErrorTypeInstall,
                                       "creating destination directory for tnsnames.ora")]
            ELSE IF Abs(to) \in m.fs.dirs
            THEN [fs |-> m.fs, err |-> HandleError(RawError("rename"), ErrorTypeInstall,
                                                   "moving tnsnames.ora file")]
            ELSE [fs |-> [m.fs EXCEPT !.files = (@ \ {Abs(from)}) \cup {Abs(to)}],
                  err |-> Nil]
    IN  IF ~Stat(fs, from)
        THEN [fs |-> fs, err |-> HandleError(RawError("not exist"), ErrorTypeInstall,
                                             "source tnsnames.ora file does not exist")]
        ELSE Moved(MkdirAll(fs, Dir(to)))

\* Uninstall.  Read, Path, Lib, Tns, Saved, Dir: the rest of Uninstall once
\* GetEnvVar("OCI_LIB64"), RemoveFromPath, RemoveEnvVar("OCI_LIB64"),
\* RemoveEnvVar("TNS_ADMIN"), the saving of tnsnames.ora and os.RemoveAll
\* have returned; the error of moveTNSNamesFile is dropped
UninstallSave(e, fs, c, ctxDone, failAt) ==
    LET Failed(env1, fs1, err) == [env |-> env1, fs |-> fs1, conf |-> c, err |-> err]
        Deleted(env1, saved, d, s) ==
            IF d.err # Nil
            THEN Failed(env1, saved, HandleError(d.err, ErrorTypeInstall,
                                                 "removing installation directory"))
            ELSE [env |-> env1, fs |-> d.fs, conf |-> s.conf, err |-> s.err]
        Saved(env1, saved) ==
            Deleted(env1, saved, RemoveAll(saved, c.InstallPath),
                    SetInstallPath(c, Dir(c.InstallPath)))
        Tns(t) ==
            IF t.err # Nil THEN Failed(t.env, fs, t.err)
            ELSE IF c.Extant /\ c.Overwrite
            THEN Saved(t.env, moveTNSNamesFile(fs,
                         Join(<<c.InstallPath, <<"network">>, <<"admin">>,
                                <<"tnsnames.ora">>>>),
                         Join(<<c.DownloadsPath, <<"tnsnames.ora">>>>)).fs)
            ELSE Saved(t.env, fs)
        Lib(o) ==
            IF o.err # Nil THEN Failed(o.env, fs, o.err)
            ELSE Tns(RemoveEnvVar(o.env, "TNS_ADMIN", failAt - 4))
        Path(p) ==
            IF p.err # Nil THEN Failed(p.env, fs, p.err)
            ELSE Lib(RemoveEnvVar(p.env, "OCI_LIB64", failAt - 3))
        Read(g) ==
            IF g.err # Nil
            THEN Failed(e, fs, IF IsErrorType(g.err, ErrorTypeEnvVarNotFound) THEN Nil
                               ELSE g.err)
            ELSE Path(RemoveFromPath(e, g.val, failAt - 1))
    IN  IF ctxDone THEN Failed(e, fs, Cancelled)
        ELSE Read(GetEnvVar(e, "OCI_LIB64", failAt))

(***************************************************************************)
(* SpecSave: that Uninstall, called with the configuration Exists leaves   *)
(* and either value of Overwrite.                                          *)
(***************************************************************************)
\* the machines of a run of main, and one on which the Downloads folder has
\* a directory named tnsnames.ora
InitSave ==
    /\ pc = "ready"
    /\ env \in Tables
    /\ env0 = env
    /\ \E fs \in Machines \cup
                 {[dirs |-> BaseDirs \cup Ancestors(OldTns)
                              \cup Ancestors(DownloadsPath0 \o <<"\\", "tnsnames.ora">>),
                   files |-> {OldTns \o <<"\\", "tnsnames.ora">>}]} :
         /\ dirs = fs.dirs
         /\ files = fs.files
         /\ \E overwrite \in BOOLEAN :
              LET x == Exists(env, fs, NewConfig, FALSE, 0).conf
              IN  conf = [InstallPath |-> x.InstallPath, DownloadsPath |-> x.DownloadsPath,
                          Extant |-> x.Extant, Overwrite |-> overwrite]
    /\ op = NoOp
    /\ ret = NoRet
    /\ extracted = {}
    /\ fatal = ""
    /\ ctx \in {"live", "done"}
    /\ calls = {}

DoUninstallSave ==
    /\ pc = "ready"
    /\ \E failAt \in 0..5 :
         LET r == UninstallSave(env, [dirs |-> dirs, files |-> files], conf,
                                ctx = "done", failAt)
         IN  /\ env' = r.env
             /\ dirs' = r.fs.dirs
             /\ files' = r.fs.files
             /\ conf' = r.conf
             /\ calls' = calls \cup {"Uninstall"}
             /\ op' = [kind |-> "Uninstall", name |-> "", arg |-> conf.InstallPath,
                       fail |-> failAt]
             /\ ret' = [err |-> r.err, val |-> <<>>]
    /\ pc' = "called"
    /\ UNCHANGED <<env0, extracted, fatal, ctx>>

SpecSave == InitSave /\ [][DoUninstallSave]_vars

(***************************************************************************)
(* SpecDownload: DownloadZip for an arbitrary answer of the server         *)
(***************************************************************************)
\* the destination: the archive in Downloads, or a file that exists already
InitDownload ==
    /\ pc = "ready"
    /\ env = [n \in Names |-> Unset]
    /\ env0 = env
    /\ conf \in {[NewConfig EXCEPT !.DownloadsPath = Join(<<DownloadsPath0, f>>)] :
                    f \in {pkgFileName, <<"tnsnames.ora">>}}
    /\ \E fs \in Machines : dirs = fs.dirs /\ files = fs.files
    /\ op = NoOp
    /\ ret = NoRet
    /\ extracted = {}
    /\ fatal = ""
    /\ ctx \in {"live", "done"}
    /\ calls = {}

DoDownloadZip ==
    /\ pc = "ready"
    /\ \E outcome \in {[status |-> c, fail |-> f] :
                          c \in {200, 201, 204, 206, 304, 404, 500},
                          f \in {"none", "request", "copy"}} :
         LET r == DownloadZip([dirs |-> dirs, files |-> files], ctx = "done", outcome,
                              conf.DownloadsPath)
         IN  /\ dirs' = r.fs.dirs
             /\ files' = r.fs.files
             /\ calls' = calls \cup {"DownloadZip"}
             /\ op' = [kind |-> "DownloadZip", name |-> "", arg |-> outcome, fail |-> 0]
             /\ ret' = [err |-> r.err, val |-> [created |-> r.created]]
    /\ pc' = "called"
    /\ UNCHANGED <<env, env0, conf, extracted, fatal, ctx>>

SpecDownload == InitDownload /\ [][DoDownloadZip]_vars

(***************************************************************************)
(* SpecRepeat: AppendToPath(p), or RemoveFromPath(p), called again and     *)
(* again with the same p.  ret.val counts the calls.                       *)
(***************************************************************************)
\* PATH values and arguments: those of SpecEnv, a value with a blank after
\* a separator, and a run of four single quotes
RepeatArgs == EnvArgs \cup { <<"'", "'", "'", "'">> }

InitRepeat ==
    /\ pc = "ready"
    /\ env \in {[OCI_LIB64 |-> <<"a">>, TNS_ADMIN |-> Unset, PATH |-> v] :
                   v \in EnvVals \cup { <<"b", ";", " ", "a">>, <<"'", "'", "'", "'">> }}
    /\ env0 = env
    /\ conf = NewConfig
    /\ dirs = {}
    /\ files = {}
    /\ op = NoOp
    /\ ret = [err |-> Nil, val |-> 0]
    /\ extracted = {}
    /\ fatal = ""
    /\ ctx = "live"
    /\ calls = {}

RepeatAppendToPath ==
    /\ ret.val < MaxCalls
    /\ op.kind \in {"none", "AppendToPath"}
    /\ \E newPath \in RepeatArgs :
         LET r == AppendToPath(env, newPath, 0)
         IN  /\ op.kind = "AppendToPath" => newPath = op.arg
             /\ env' = r.env
             /\ calls' = calls \cup {"AppendToPath"}
             /\ op' = [kind |-> "AppendToPath", name |-> "PATH", arg |-> newPath, fail |-> 0]
             /\ ret' = [err |-> r.err, val |-> ret.val + 1]
    /\ pc' = "called"
    /\ UNCHANGED <<env0, conf, dirs, files, extracted, fatal, ctx>>

RepeatRemoveFromPath ==
    /\ ret.val < MaxCalls
    /\ op.kind \in {"none", "RemoveFromPath"}
    /\ \E pathToRemove \in RepeatArgs :
         LET r == RemoveFromPath(env, pathToRemove, 0)
         IN  /\ op.kind = "RemoveFromPath" => pathToRemove = op.arg
             /\ env' = r.env
             /\ calls' = calls \cup {"RemoveFromPath"}
             /\ op' = [kind |-> "RemoveFromPath", name |-> "PATH", arg |-> pathToRemove,
                       fail |-> 0]
             /\ ret' = [err |-> r.err, val |-> ret.val + 1]
    /\ pc' = "called"
    /\ UNCHANGED <<env0, conf, dirs, files, extracted, fatal, ctx>>

SpecRepeat == InitRepeat /\ [][RepeatAppendToPath \/ RepeatRemoveFromPath]_vars

(***************************************************************************)
(* SpecPath: input.InstallPath on arbitrary console input                  *)
(***************************************************************************)
\* the lines the user types: directories that exist (absolute, relative,
\* padded with blanks), a regular file, names of nothing, an empty line
PathInputs ==
    LET PathPool == { OldRoot, <<" ">> \o OldRoot \o <<" ">>, <<".">>, <<"Downloads">>,
                      OldTns \o <<"\\", "tnsnames.ora">>, <<"nowhere">>, <<>>, QuoteDir }
    IN  UNION {[1..k -> PathPool] : k \in 0..MaxLines}

InitPath ==
    /\ pc = "ready"
    /\ env = [n \in Names |-> Unset]
    /\ env0 = env
    /\ conf = NewConfig
    /\ \E fs \in Machines : dirs = fs.dirs /\ files = fs.files
    /\ op = NoOp
    /\ ret = NoRet
    /\ extracted = {}
    /\ fatal = ""
    /\ ctx = "live"
    /\ calls = {}

DoInstallPath ==
    /\ pc = "ready"
    /\ \E stdin \in PathInputs :
         LET r == InstallPath([dirs |-> dirs, files |-> files], stdin, 0)
         IN  /\ calls' = calls \cup {"InstallPath"}
             /\ op' = [kind |-> "InstallPath", name |-> "", arg |-> stdin, fail |-> 0]
             /\ ret' = [err |-> Nil, val |-> [returned |-> r.returned, path |-> r.path]]
             /\ fatal' = r.fatal
             /\ pc' = IF r.returned THEN "called" ELSE "exited"
    /\ UNCHANGED <<env, env0, conf, dirs, files, extracted, ctx>>

SpecPath == InitPath /\ [][DoInstallPath]_vars

(***************************************************************************)
(* Properties                                                              *)
(***************************************************************************)
Text(v) == IF v = Unset THEN <<>> ELSE v
NoQuote(s) == \A i \in 1..Len(s) : s[i] # "'"
\* GetEnvVar returns the value (trimmed) rather than envVarNotFound
Readable(v) == v # Unset /\ TrimSpace(v) \notin Degenerate
\* s less one trailing separator
Base(s) == IF HasSuffix(s, <<";">>) THEN SubSeq(s, 1, Len(s) - 1) ELSE s
Segments(v) == IF v = Unset THEN <<>> ELSE Split(v, ";")
Occurrences(segments, x) == Cardinality({i \in 1..Len(segments) : segments[i] = x})

\* C6 as stated: AppendToPath(p), for every current PATH value and every p
\* (shell invocations succeeding): PATH is unchanged when p is a substring of
\* it, and is otherwise the old value, one `;`, p, one `;`.
C6_AsStated ==
    (op.kind = "AppendToPath" /\ op.fail = 0) =>
        LET old == Text(env0["PATH"])
        IN  IF Contains(old, op.arg)
            THEN env["PATH"] = env0["PATH"]
            ELSE env["PATH"] = Base(old) \o <<";">> \o op.arg \o <<";">>

\* C6 amended: when the current PATH is a value GetEnvVar returns (set, and
\* after trimming neither empty nor `.`, `..`, `/`, `\`) and the shell
\* invocations succeed: PATH is unchanged when p is a substring of the trimmed
\* value; otherwise, p and PATH holding no single quote, the new PATH is the
\* trimmed old value, exactly one `;` between it and p, and exactly one `;`
\* after p.  For any other PATH value AppendToPath fails with envVarNotFound
\* and leaves PATH as it was.
C6_AppendToPath ==
    (op.kind = "AppendToPath" /\ op.fail = 0) =>
        LET old == env0["PATH"]
            cur == TrimSpace(Text(old))
        IN  IF ~Readable(old)
            THEN env["PATH"] = old /\ IsErrorType(ret.err, ErrorTypeEnvVarNotFound)
            ELSE IF Contains(cur, op.arg)
            THEN env["PATH"] = old /\ ret.err = Nil
            ELSE (NoQuote(cur) /\ NoQuote(op.arg)) =>
                    /\ env["PATH"] = Base(cur) \o <<";">> \o op.arg \o <<";">>
                    /\ ret.err = Nil

\* C6 witness: an absent p was appended to a PATH that ended with `;`
C6_Witness ==
    /\ op.kind = "AppendToPath" /\ op.fail = 0
    /\ Readable(env0["PATH"])
    /\ HasSuffix(env0["PATH"], <<";">>)
    /\ op.arg = <<"b">>
    /\ ~Contains(env0["PATH"], op.arg)
    /\ env["PATH"] = env0["PATH"] \o <<"b", ";">>

\* C7 as stated: RemoveFromPath(p), for every current PATH value and every p
\* (shell invocations succeeding): no segment of the new PATH equals p and the
\* (non-empty) segments different from p are kept in order.
C7_AsStated ==
    (op.kind = "RemoveFromPath" /\ op.fail = 0) =>
        /\ Occurrences(Segments(env["PATH"]), op.arg) = 0
        /\ Without(Segments(env["PATH"]), <<>>)
             = Without(Without(Segments(env0["PATH"]), op.arg), <<>>)

\* C7 amended: when the current PATH is a value GetEnvVar returns, holds no
\* single quote, and the shell invocations succeed: no segment of the new PATH
\* equals p (every occurrence is removed) and the segments of the trimmed old
\* value that differ from p are kept in order (a PATH left empty is deleted).
\* For any other PATH value RemoveFromPath fails with envVarNotFound and
\* leaves PATH as it was, also when PATH equals p.
C7_RemoveFromPath ==
    (op.kind = "RemoveFromPath" /\ op.fail = 0) =>
        LET old == env0["PATH"]
            cur == TrimSpace(Text(old))
        IN  IF ~Readable(old)
            THEN env["PATH"] = old /\ IsErrorType(ret.err, ErrorTypeEnvVarNotFound)
            ELSE NoQuote(cur) =>
                    /\ ret.err = Nil
                    /\ Occurrences(Segments(env["PATH"]), op.arg) = 0
                    /\ Without(Segments(env["PATH"]), <<>>)
                         = Without(Without(Segments(cur), op.arg), <<>>)

\* C7 witness: p occurred twice in PATH, with another segment in between
C7_Witness ==
    /\ op.kind = "RemoveFromPath" /\ op.fail = 0
    /\ op.arg = <<"a">>
    /\ env0["PATH"] = <<"a", ";", "b", ";", "a">>
    /\ env["PATH"] = <<"b">>

\* C8 as stated: for every name and value, a successful SetEnvVar(name, value)
\* followed by GetEnvVar(name) returns value, and RemoveEnvVar(name) followed
\* by GetEnvVar(name) fails with envVarNotFound.
C8_AsStated ==
    [][ (op'.kind = "GetEnvVar" /\ op'.name = op.name /\ op'.fail = 0 /\ ret.err = Nil) =>
            /\ op.kind = "SetEnvVar" => (ret'.err = Nil /\ ret'.val = op.arg)
            /\ op.kind = "RemoveEnvVar" => IsErrorType(ret'.err, ErrorTypeEnvVarNotFound)
      ]_vars

\* a value that survives the PowerShell literal, the deletion of empty values,
\* TrimSpace and the degenerate-value check
RoundTrips(value) ==
    /\ value \notin Degenerate
    /\ TrimSpace(value) = value
    /\ NoQuote(value)

\* C8 amended: for every name and every value that is not empty, not `.`,
\* `..`, `/` or `\`, has no leading or trailing whitespace and no single quote,
\* a successful SetEnvVar(name, value) followed by GetEnvVar(name) returns
\* value; a successful RemoveEnvVar(name) followed by GetEnvVar(name) fails
\* with envVarNotFound.
C8_RoundTrip ==
    [][ (op'.kind = "GetEnvVar" /\ op'.name = op.name /\ op'.fail = 0 /\ ret.err = Nil) =>
            /\ (op.kind = "SetEnvVar" /\ RoundTrips(op.arg)) =>
                    (ret'.err = Nil /\ ret'.val = op.arg)
            /\ op.kind = "RemoveEnvVar" => IsErrorType(ret'.err, ErrorTypeEnvVarNotFound)
      ]_vars

\* C8 witness: TNS_ADMIN, unset at first, was set (only SetEnvVar does that)
\* and GetEnvVar then returned the value
C8_Witness ==
    /\ pc = "observed" /\ op.kind = "GetEnvVar" /\ op.name = "TNS_ADMIN"
    /\ env0["TNS_ADMIN"] = Unset
    /\ ret.err = Nil /\ ret.val = <<"a", ";", "b">>

\* C9: GetEnvVar(name) fails with envVarNotFound and returns no value whenever
\* the variable is unset, empty or one of `.`, `..`, `/`, `\`.
C9_GetEnvVarNotFound ==
    (op.kind = "GetEnvVar" /\ (env[op.name] = Unset \/ env[op.name] \in Degenerate)) =>
        (IsErrorType(ret.err, ErrorTypeEnvVarNotFound) /\ ret.val = <<>>)

\* C9 witness: GetEnvVar ran, its shell invocation succeeded, on a variable
\* equal to `..`
C9_Witness ==
    /\ op.kind = "GetEnvVar" /\ op.fail = 0
    /\ env[op.name] = <<".", ".">>

\* the name is "instantclient_", one or two digits, "_", one or two digits, "/"
IsDigitString(s) == Len(s) \in 1..2 /\ \A i \in 1..Len(s) : s[i] \in Digits
IsTopDirName(name) ==
    /\ Len(name) >= 2
    /\ name[1] = "instantclient_"
    /\ name[Len(name)] = "/"
    /\ LET parts == Split(SubSeq(name, 2, Len(name) - 1), "_")
       IN  Len(parts) = 2 /\ IsDigitString(parts[1]) /\ IsDigitString(parts[2])

TopDirEntries(archive) == {k \in 1..Len(archive) : IsTopDirName(archive[k].name)}

\* where the entry lands
Target(f) == Abs(Join(<<conf.InstallPath, f.name>>))

\* no entry is a file where another entry, or the file system, has a directory
Compatible(archive) ==
    \A i \in 1..Len(archive) :
        ~EntryIsDir(archive[i]) =>
            /\ Target(archive[i]) \notin BaseDirs \cup Ancestors(Abs(conf.InstallPath))
            /\ \A j \in 1..Len(archive) :
                   (j # i /\ Target(archive[i]) \in Ancestors(Target(archive[j]))) =>
                       (~EntryIsDir(archive[j]) /\ Target(archive[j]) = Target(archive[i]))

\* the archive opens, the root can be created and no entry meets an I/O error
Extracts ==
    /\ op.kind = "UnZip" /\ op.fail = 0 /\ op.arg # BadZip
    /\ \A k \in 1..Len(op.arg) : op.arg[k].fail = "none"
    /\ Compatible(op.arg)

\* C4 as stated: every directory and file the extractFile calls of UnZip
\* create lies inside the install root.
C4_AsStated ==
    op.kind = "UnZip" => \A q \in extracted : Under(Abs(conf.InstallPath), q)

\* C5: an archive that opens, whose entries all extract without I/O error,
\* into an install root that can be created: with exactly one entry matching
\* the pattern UnZip returns that directory name; with none it fails with the
\* install error "no valid instant client directory found in zip".
C5_UnZipTopDir ==
    Extracts =>
        LET hits == TopDirEntries(op.arg)
        IN  /\ Cardinality(hits) = 1 =>
                /\ ret.err = Nil
                /\ \A k \in hits : ret.val \o <<"/">> = op.arg[k].name
            /\ hits = {} =>
                /\ ret.val = <<>>
                /\ ret.err = <<[type |-> ErrorTypeInstall, operation |-> "validating zip contents"],
                               [type |-> "raw",
                                operation |-> "no valid instant client directory found in zip"]>>

\* C5 witness: UnZip returned the one matching name of a two-entry archive
C5_Witness ==
    /\ Extracts
    /\ Len(op.arg) = 2
    /\ TopDirEntries(op.arg) = {2}
    /\ ret.err = Nil
    /\ ret.val = InstantClient(<<"1", "9">>, <<"8">>)

\* the line as Confirmation compares it
Normal(line) == ToLower(TrimSpace(line))
Answers(line) == Normal(line) \in {<<"y">>, <<"n">>}

\* C10: Confirmation returns true only for a line that, trimmed and
\* lower-cased, is `y`, and false only for `n`; every other line is rejected
\* and the next one read; after three invalid lines the process ends with
\* "maximum input attempts exceeded" and no answer is returned.
C10_Confirmation ==
    op.kind = "Confirmation" =>
        LET stdin == op.arg
            valid == {k \in 1..Len(stdin) : k <= maxAttempts /\ Answers(stdin[k])}
            first == CHOOSE k \in valid : \A j \in valid : k <= j
        IN  /\ ret.val.returned =>
                /\ fatal = "" /\ pc # "exited"
                /\ ret.val.reads \in 1..maxAttempts
                /\ ret.val.answer <=> Normal(stdin[ret.val.reads]) = <<"y">>
                /\ ~ret.val.answer <=> Normal(stdin[ret.val.reads]) = <<"n">>
                /\ \A k \in 1..(ret.val.reads - 1) : ~Answers(stdin[k])
            /\ valid # {} => (ret.val.returned /\ ret.val.reads = first)
            /\ (valid = {} /\ Len(stdin) >= maxAttempts) =>
                /\ ~ret.val.returned /\ pc = "exited"
                /\ ret.val.reads = maxAttempts
                /\ fatal = "maximum input attempts exceeded"

\* C10 witness: two lines were rejected and the third, ` y ` or `Y`, accepted
C10_Witness ==
    /\ op.kind = "Confirmation"
    /\ op.arg = << <<"y", "e", "s">>, <<>>, <<"Y">> >>
    /\ ret.val.returned /\ ret.val.answer /\ ret.val.reads = 3

\* C10 witness of the abort: three invalid lines
C10_WitnessAbort ==
    /\ op.kind = "Confirmation"
    /\ op.arg = << <<"x">>, <<"x">>, <<"x">> >>
    /\ pc = "exited"

\* Install got a directory name from each archive and the two differ
Mismatched ==
    /\ op.kind = "Install"
    /\ ret.val.pkgDir # <<>> /\ ret.val.sdkDir # <<>>
    /\ ret.val.pkgDir # ret.val.sdkDir

MismatchError ==
    <<[type |-> ErrorTypeInstall, operation |-> "version verification"],
      [type |-> "raw", operation |-> "package version does not match SDK version"]>>

\* Install's error went to log.Fatal("installation failed: ", err)
InstallationFailed == pc = "exited" /\ fatal = "installation failed: " /\ ret.err = MismatchError

\* C1 as stated: when the two archives extract to different top-level
\* directory names the run ends with the install-category version-mismatch
\* error and no environment variable differs from its value at the start of
\* the run, on every path through the run.
C1_AsStated == Mismatched => (InstallationFailed /\ env = env0)

\* C1: when the two archives extract to different top-level directory names
\* the run ends with the install-category version-mismatch error; Install has
\* changed no environment variable, and on a run that did not call Uninstall
\* every variable has the value it had at the start of the run.
C1_VersionMismatch ==
    /\ [](Mismatched => (InstallationFailed /\ ("Uninstall" \notin calls => env = env0)))
    /\ [][(pc = "install" /\ Mismatched') => env' = env]_vars

\* C1 witness: the version check failed after the user chose to overwrite
\* and Uninstall removed OCI_LIB64
C1_Witness ==
    /\ Mismatched /\ InstallationFailed
    /\ "Uninstall" \in calls
    /\ env0["OCI_LIB64"] = OldLib /\ env["OCI_LIB64"] = Unset

\* two spellings of one path
SamePath(a, b) == Clean(a) = Clean(b)

\* C2 as stated: after a successful Install into the directory D, with the
\* top-level directory name T extracted from both archives, OCI_LIB64 is D/T
\* and TNS_ADMIN is D/T/network/admin.
C2_AsStated ==
    (op.kind = "Install" /\ pc = "done") =>
        LET lib == conf.InstallPath \o <<"/">> \o ret.val.pkgDir
        IN  /\ ret.val.pkgDir = ret.val.sdkDir
            /\ SamePath(env["OCI_LIB64"], lib)
            /\ SamePath(env["TNS_ADMIN"], lib \o <<"/", "network", "/", "admin">>)

\* C3 as stated: Uninstall called with an install path that is empty, `.`,
\* `/` or `\` returns an install-category error and deletes nothing.
C3_AsStated ==
    [][(op'.kind = "Uninstall" /\ conf.InstallPath \in {<<>>, <<".">>, <<"/">>, <<"\\">>}) =>
          /\ IsErrorType(ret'.err, ErrorTypeInstall)
          /\ dirs' = dirs /\ files' = files]_vars

\* the line, as typed, names a directory that exists
NamesDirectory(line) ==
    LET path == TrimSpace(line)
    IN  path # <<>> /\ Abs(path) \in dirs

\* C11: InstallPath returns only a string that names an existing directory:
\* the first of the first three lines that does, trimmed; every line before it
\* was rejected and the next one read; after three lines that name no existing
\* directory the process ends with "maximum input attempts exceeded,
\* installation aborted" and no path is returned.
C11_InstallPath ==
    op.kind = "InstallPath" =>
        LET stdin == op.arg
            valid == {k \in 1..Len(stdin) : k <= maxAttempts /\ NamesDirectory(stdin[k])}
            first == CHOOSE k \in valid : \A j \in valid : k <= j
        IN  /\ ret.val.returned =>
                /\ fatal = "" /\ pc # "exited"
                /\ ret.val.path # <<>> /\ Abs(ret.val.path) \in dirs
                /\ valid # {} /\ ret.val.path = TrimSpace(stdin[first])
            /\ valid # {} => ret.val.returned
            /\ ~ret.val.returned => (pc = "exited" /\ fatal # "" /\ ret.val.path = <<>>)
            /\ (valid = {} /\ Len(stdin) >= maxAttempts) =>
                /\ ~ret.val.returned
                /\ fatal = "maximum input attempts exceeded, installation aborted"

\* C11 witness: a regular file and a name of nothing were rejected, the third
\* line, an existing directory, was returned
C11_Witness ==
    /\ op.kind = "InstallPath"
    /\ op.arg = << OldTns \o <<"\\", "tnsnames.ora">>, <<"nowhere">>, <<" ">> \o OldRoot \o <<" ">> >>
    /\ OldTns \o <<"\\", "tnsnames.ora">> \in files
    /\ ret.val.returned /\ ret.val.path = OldRoot

\* C11 witness of the abort: three lines that name no existing directory
C11_WitnessAbort ==
    /\ op.kind = "InstallPath"
    /\ op.arg = << <<"nowhere">>, <<>>, OldTns \o <<"\\", "tnsnames.ora">> >>
    /\ pc = "exited"
    /\ fatal = "maximum input attempts exceeded, installation aborted"

\* handleCurrentInstall has returned nil after the user chose to overwrite:
\* Uninstall was called and reported success
Overwritten == pc = "location" /\ "Uninstall" \in calls

\* the directory OCI_LIB64 named when the run started
OldInstall == Clean(env0["OCI_LIB64"])

\* C12 as stated: after the answer yes to the overwrite prompt and an
\* Uninstall that returned no error, OCI_LIB64 and TNS_ADMIN are unset, no
\* segment of PATH equals the old library path, the old installation directory
\* is gone and the configuration's install path is its parent directory.
C12_AsStated ==
    Overwritten =>
        /\ env["OCI_LIB64"] = Unset
        /\ env["TNS_ADMIN"] = Unset
        /\ Occurrences(Segments(env["PATH"]), env0["OCI_LIB64"]) = 0
        /\ Abs(OldInstall) \notin dirs
        /\ conf.InstallPath = Dir(OldInstall)

\* handleCurrentInstall has returned after the user declined to overwrite
Kept ==
    /\ op.kind = "handleCurrentInstall"
    /\ "Confirmation" \in calls /\ "Uninstall" \notin calls
    /\ fatal # "maximum input attempts exceeded"

\* C13 as stated: after the answer no to the overwrite prompt the
\* configuration's install path is the parent directory of the existing
\* library directory, and the step has changed no environment variable, no
\* file and no directory.
C13_AsStated ==
    [][(pc = "current" /\ Kept') =>
          /\ conf'.InstallPath = Dir(Clean(env["OCI_LIB64"]))
          /\ env' = env /\ dirs' = dirs /\ files' = files]_vars

\* C13: after the answer no to the overwrite prompt the step has changed no
\* environment variable, no file and no directory; when the parent directory
\* of the existing library directory is a path the configuration accepts
\* (not empty, `.`, `..`, `/` or `\`) the install path becomes that parent and
\* the step returns nil; otherwise the step fails with a validation error
\* and the install path stays the library directory.
C13_KeepInstall ==
    [][(pc = "current" /\ Kept') =>
          LET lib == Clean(env["OCI_LIB64"])
          IN  /\ env' = env /\ dirs' = dirs /\ files' = files
              /\ IF Dir(lib) \notin Degenerate
                 THEN conf'.InstallPath = Dir(lib) /\ ret'.err = Nil /\ pc' = "location"
                 ELSE /\ conf'.InstallPath = lib
                      /\ IsErrorType(ret'.err, ErrorTypeValidation)
                      /\ pc' = "exited"]_vars

\* C13 witness: the user kept the installation in C:\OraClient\instantclient_19_3
\* and the install path is C:\OraClient
C13_Witness ==
    /\ Kept /\ pc = "location"
    /\ env["OCI_LIB64"] = OldLib /\ env = env0
    /\ OldLib \in dirs
    /\ conf.InstallPath = OldRoot

\* the value of the variable as GetEnvVar and filepath.Clean leave it
Cleaned(name) == Clean(TrimSpace(Text(env[name])))

\* as the claim words them: OCI_LIB64 absent or empty; OCI_LIB64 names an
\* existing directory; TNS_ADMIN is <OCI_LIB64>/network/admin, exists and
\* holds tnsnames.ora
LibAbsent == TrimSpace(Text(env["OCI_LIB64"])) = <<>>
LibIsDir == ~LibAbsent /\ Abs(Cleaned("OCI_LIB64")) \in dirs
TnsProper ==
    /\ TrimSpace(Text(env["TNS_ADMIN"])) # <<>>
    /\ Cleaned("TNS_ADMIN") = Cleaned("OCI_LIB64") \o <<"\\", "network", "\\", "admin">>
    /\ Abs(Cleaned("TNS_ADMIN")) \in dirs
    /\ Abs(Cleaned("TNS_ADMIN") \o <<"\\", "tnsnames.ora">>) \in files

LibFound ==
    /\ ctx = "live" /\ op'.fail # 1
    /\ Readable(env["OCI_LIB64"])
    /\ Abs(Cleaned("OCI_LIB64")) \in dirs \cup files
    /\ Cleaned("OCI_LIB64") \notin Degenerate

C14_WitnessMisconfigured ==
    /\ op.kind = "handleCurrentInstall" /\ op.fail = 0
    /\ env0["OCI_LIB64"] = OldLib /\ env0["TNS_ADMIN"] = OldTns
    /\ op.arg = << <<"n">> >> /\ OldTns \in dirs
    /\ ret.val.ok /\ ~ret.val.conf.Extant

\* Install ran for a valid existing installation (Extant) and every step
\* before the relocation of tnsnames.ora succeeded: it returned nil or the
\* error of MigrateFile
Relocating ==
    /\ op.kind = "Install" /\ conf.Extant
    /\ \/ ret.err = Nil
       \/ ret.err[1].operation \in {"source tnsnames.ora file does not exist",
                                      "creating destination directory for tnsnames.ora",
                                      "moving tnsnames.ora file"}

\* C15 as stated: when a valid existing installation holding tnsnames.ora was
\* detected, then for either answer to the overwrite prompt a run whose
\* download, extraction, version check and environment configuration succeed
\* ends successfully with tnsnames.ora in the new TNS_ADMIN directory.
C15_AsStated ==
    Relocating =>
        /\ pc = "done"
        /\ Abs(env["TNS_ADMIN"] \o <<"\\", "tnsnames.ora">>) \in files

\* Exists returned an error that is not the "variable not found" signal
DetectionFailed ==
    /\ op.kind = "handleCurrentInstall"
    /\ ret.val.err # Nil
    /\ ~IsErrorType(ret.val.err, ErrorTypeEnvVarNotFound)

\* C16 as stated, for the detection step: once Exists has returned an error
\* the run is over; main does not go on to the install-location prompts.
C16_AsStated == DetectionFailed => pc = "exited"

\* the categories the error carries, from the wrapper put on where the
\* failure occurred to the outermost one, which is what IsErrorType and
\* main's switch see
Categories(err) == {err[i].type : i \in 1..Len(err)} \ {"raw"}

\* C17 as stated: the error a step hands to main carries one category, the
\* one assigned where the failure occurred; no function it passed through
\* has put another category on it.
C17_AsStated == ret.err # Nil => Cardinality(Categories(ret.err)) = 1

\* C18: DownloadZip returns a download-category error for every response
\* whose status is not 2xx, and has then neither created nor truncated the
\* destination file (nor changed anything else in the file system).
C18_DownloadZip ==
    [][(op'.kind = "DownloadZip" /\ ctx = "live" /\ op'.arg.fail # "request"
        /\ op'.arg.status \notin 200..299) =>
          /\ IsErrorType(ret'.err, ErrorTypeDownload)
          /\ ~ret'.val.created
          /\ files' = files /\ dirs' = dirs]_vars

\* C18 witness: the server answered 404 and the file that was at the
\* destination is still there, not truncated
C18_Witness ==
    /\ op.kind = "DownloadZip" /\ ctx = "live"
    /\ op.arg = [status |-> 404, fail |-> "none"]
    /\ Abs(conf.DownloadsPath) \in files
    /\ ~ret.val.created
    /\ ret.err = <<[type |-> ErrorTypeDownload, operation |-> "checking response status"],
                   [type |-> "raw", operation |-> "HTTP status"]>>

\* the step is a repeated call: the same operation with the same p again
Again == op.kind # "none" /\ op'.kind = op.kind

\* C19 as stated: for every initial PATH and every p, a repeated
\* AppendToPath(p) or RemoveFromPath(p) leaves PATH as the call before it
\* left it, and AppendToPath(p) leaves PATH untouched when p was already
\* present.
C19_AsStated ==
    /\ [][Again => env' = env]_vars
    /\ []((op.kind = "AppendToPath" /\ Contains(Text(env0["PATH"]), op.arg)) => env = env0)

\* C19: a repeated AppendToPath(p) leaves PATH as the call before it left
\* it whenever p holds no single quote, so that p is added at most once, and
\* AppendToPath(p) leaves PATH untouched when p is a substring of the trimmed
\* PATH value; a repeated RemoveFromPath(p) leaves PATH as the call before it
\* left it whenever that PATH value holds no single quote and neither begins
\* nor ends with whitespace.
C19_Idempotent ==
    /\ [][(Again /\ op.kind = "AppendToPath" /\ NoQuote(op.arg)) => env' = env]_vars
    /\ [][(Again /\ op.kind = "RemoveFromPath" /\ NoQuote(Text(env["PATH"]))
           /\ TrimSpace(Text(env["PATH"])) = Text(env["PATH"])) => env' = env]_vars
    /\ []((op.kind = "AppendToPath" /\ Contains(TrimSpace(Text(env0["PATH"])), op.arg))
            => env = env0)
    /\ []((op.kind = "AppendToPath" /\ NoQuote(op.arg) /\ NoQuote(Text(env0["PATH"])))
            => Occurrences(Segments(env["PATH"]), op.arg)
                 <= Occurrences(Segments(env0["PATH"]), op.arg) + 1)

\* C19 witness: the third AppendToPath(b) on a PATH that was `a` at first
C19_Witness ==
    /\ op.kind = "AppendToPath" /\ op.arg = <<"b">>
    /\ ret.val = 3 /\ ret.err = Nil
    /\ env0["PATH"] = <<"a">>
    /\ env["PATH"] = <<"a", ";", "b", ";">>

\* C19 witness for RemoveFromPath: the second RemoveFromPath(a)
C19_WitnessRemove ==
    /\ op.kind = "RemoveFromPath" /\ op.arg = <<"a">>
    /\ ret.val = 2 /\ ret.err = Nil
    /\ env0["PATH"] = <<"a", ";", "b", ";", "a">>
    /\ env["PATH"] = <<"b">>

\* the step writes the variable
Writes(name) == env'[name] # env[name] /\ env'[name] # Unset

\* C20 as stated: a value written to OCI_LIB64 is the install directory
\* joined with the top-level directory name taken from the archive, which is
\* not empty, and a value written to TNS_ADMIN is that path followed by
\* network/admin; neither variable is written as empty, `.`, `/` or `\`, and
\* Install is never started with an install path that is empty, `.`, `..`,
\* `/` or `\`.
C20_AsStated ==
    [][LET lib == Join(<<conf.InstallPath, ret'.val.pkgDir>>)
       IN  /\ \A name \in {"OCI_LIB64", "TNS_ADMIN"} :
                 Writes(name) => env'[name] \notin {<<>>, <<".">>, <<"/">>, <<"\\">>}
           /\ op'.kind = "Install" =>
                 /\ conf.InstallPath \notin Degenerate
                 /\ env'["OCI_LIB64"] \in {env["OCI_LIB64"], lib}
                 /\ env'["TNS_ADMIN"] \in {env["TNS_ADMIN"],
                                           Join(<<lib, <<"network">>, <<"admin">>>>)}
                 /\ Writes("OCI_LIB64") => ret'.val.pkgDir # <<>>]_vars

\* C21 as stated: after a successful Install the library directory, the
\* value of OCI_LIB64, is one of the `;`-separated segments of PATH.
C21_AsStated ==
    (op.kind = "Install" /\ pc = "done") =>
        Occurrences(Segments(env["PATH"]), env["OCI_LIB64"]) >= 1

\* the last of a set of indices
Last(hits) == CHOOSE k \in hits : \A j \in hits : j <= k

\* C23: an archive that opens, whose entries all extract without I/O error,
\* and of which several entries match the pattern: UnZip returns the name of
\* the last matching entry in the order of the archive.
C23_LastMatchWins ==
    (Extracts /\ Cardinality(TopDirEntries(op.arg)) >= 2) =>
        /\ ret.err = Nil
        /\ ret.val \o <<"/">> = op.arg[Last(TopDirEntries(op.arg))].name

\* C23 witness: instantclient_19_8/ before instantclient_2_1/, and UnZip
\* returned instantclient_2_1
C23_Witness ==
    /\ Extracts
    /\ Len(op.arg) = 2
    /\ op.arg[1].name = InstantClient(<<"1", "9">>, <<"8">>) \o <<"/">>
    /\ op.arg[2].name = InstantClient(<<"2">>, <<"1">>) \o <<"/">>
    /\ ret.val = InstantClient(<<"2">>, <<"1">>)

\* C23 witness for the other order: UnZip returned instantclient_19_8
C23_WitnessReversed ==
    /\ Extracts
    /\ Len(op.arg) = 2
    /\ op.arg[1].name = InstantClient(<<"2">>, <<"1">>) \o <<"/">>
    /\ op.arg[2].name = InstantClient(<<"1", "9">>, <<"8">>) \o <<"/">>
    /\ ret.val = InstantClient(<<"1", "9">>, <<"8">>)

\* the entries on which extractFile is made to fail
Failing(archive) == {k \in 1..Len(archive) : archive[k].fail # "none"}

\* the first entry on which extractFile is made to fail (counted from 1)
FirstFailing(archive) == CHOOSE k \in Failing(archive) : \A j \in Failing(archive) : k <= j

\* UnZip opened the archive and an entry met an I/O error, while the entries
\* before it extracted
FailsAtEntry ==
    /\ op.kind = "UnZip" /\ op.fail = 0 /\ op.arg # BadZip
    /\ Failing(op.arg) # {}
    /\ Compatible(SubSeq(op.arg, 1, FirstFailing(op.arg) - 1))

\* the paths that extracting the entries 1..n of the archive can create
Reach(archive, n) ==
    UNION {Ancestors(Target(archive[i])) : i \in 1..n} \cup Ancestors(Abs(conf.InstallPath))

\* C24: when extracting entry k (counted from 0) fails with an I/O error,
\* UnZip returns an install error for the operation "extracting file k" and
\* no directory name, also when a matching entry came before, and nothing is
\* created for an entry after k.
C24_StopsAtFailure ==
    FailsAtEntry =>
        LET n == FirstFailing(op.arg)
        IN  /\ ret.err # Nil
            /\ Head(ret.err) = [type |-> ErrorTypeInstall,
                                operation |-> "extracting file " \o ToString(n - 1)]
            /\ ret.val = <<>>
            /\ extracted \subseteq Reach(op.arg, n)
            /\ (dirs \cup files) \ BaseDirs \subseteq Reach(op.arg, n)

\* C24 witness: instantclient_19_8/ extracted, then oci.dll failed while
\* it was written
C24_Witness ==
    /\ FailsAtEntry
    /\ Len(op.arg) = 2
    /\ op.arg[1] = [name |-> InstantClient(<<"1", "9">>, <<"8">>) \o <<"/">>, fail |-> "none"]
    /\ op.arg[2].fail = "copy"
    /\ ret.val = <<>>
    /\ Head(ret.err).operation = "extracting file 1"

\* C24 witness: the first of two entries failed, and the second, a directory
\* entry, was not created
C24_WitnessFirst ==
    /\ FailsAtEntry
    /\ Len(op.arg) = 2
    /\ op.arg[1].fail = "open"
    /\ op.arg[2] = [name |-> InstantClient(<<"2">>, <<"1">>) \o <<"/">>, fail |-> "none"]
    /\ Head(ret.err).operation = "extracting file 0"
    /\ Target(op.arg[2]) \notin dirs

\* UnZip returned the error "no valid instant client directory found in zip"
NoTopDir ==
    /\ op.kind = "UnZip"
    /\ ret.err = <<[type |-> ErrorTypeInstall, operation |-> "validating zip contents"],
                   [type |-> "raw",
                    operation |-> "no valid instant client directory found in zip"]>>

\* C30 as stated: when UnZip returns the error "no valid instant client
\* directory found in zip", every entry of the archive has been written under
\* the install root and nothing that was written, or was there before, has
\* been removed.
C30_AsStated ==
    NoTopDir =>
        /\ \A k \in 1..Len(op.arg) :
              /\ Target(op.arg[k]) \in (IF EntryIsDir(op.arg[k]) THEN dirs ELSE files)
              /\ Under(Abs(conf.InstallPath), Target(op.arg[k]))
        /\ extracted \subseteq dirs \cup files
        /\ BaseDirs \subseteq dirs

\* C25: Install started after the deadline has expired returns the error of
\* the operation "context cancellation" and leaves the environment
\* variables and the file system as they were, with nothing downloaded or
\* extracted; and DownloadZip called at that moment, whatever the server
\* would answer, returns a download error of the operation "context
\* cancellation" and creates no file.
C25_Expired ==
    [][(op'.kind = "Install" /\ ctx = "done") =>
          /\ ret'.err # Nil
          /\ Head(ret'.err) = [type |-> ErrorTypeInstall, operation |-> "context cancellation"]
          /\ env' = env /\ dirs' = dirs /\ files' = files
          /\ extracted' = {}
          /\ pc' = "exited"
          /\ \A status \in {StatusOK, 404}, fail \in {"none", "request", "copy"} :
                LET d == DownloadZip([dirs |-> dirs, files |-> files], TRUE,
                                     [status |-> status, fail |-> fail],
                                     Join(<<conf.DownloadsPath, pkgFileName>>))
                IN  /\ d.err # Nil
                    /\ Head(d.err) = [type |-> ErrorTypeDownload,
                                      operation |-> "context cancellation"]
                    /\ ~d.created
                    /\ d.fs = [dirs |-> dirs, files |-> files]]_vars

\* C25 witness: the deadline expired before Install was called, Install
\* returned the cancellation error and the run ended with Downloads empty
C25_Witness ==
    /\ op.kind = "Install" /\ ctx = "done"
    /\ ret.err = Cancelled
    /\ pc = "exited"
    /\ env = env0
    /\ extracted = {}
    /\ Abs(Join(<<conf.DownloadsPath, pkgFileName>>)) \notin files

\* GetEnvVar finds no usable value in OCI_LIB64: it is unset, blank or one of
\* `.`, `..`, `/`, `\`
NoLibrary == TrimSpace(Text(env["OCI_LIB64"])) \in Degenerate

\* C26 as stated: Uninstall called while OCI_LIB64 is unset, empty or
\* degenerate returns nil and leaves the environment variables, the file
\* system and the configuration as they were.
C26_AsStated ==
    [][(op'.kind = "Uninstall" /\ NoLibrary) =>
          /\ ret'.err = Nil
          /\ env' = env /\ dirs' = dirs /\ files' = files /\ conf' = conf]_vars

\* C26: Uninstall called while OCI_LIB64 is unset, blank or degenerate
\* leaves the environment variables, the file system and the configuration
\* as they were; it returns nil when the context is live, and the error of
\* "context cancellation" when the deadline has expired.
C26_NoOp ==
    [][(op'.kind = "Uninstall" /\ NoLibrary) =>
          /\ env' = env /\ dirs' = dirs /\ files' = files /\ conf' = conf
          /\ ret'.err = IF ctx = "live" THEN Nil ELSE Cancelled]_vars

\* C26 witness: OCI_LIB64 was `.`, Uninstall returned nil and the
\* installation that TNS_ADMIN and PATH name is still there
C26_Witness ==
    /\ op.kind = "Uninstall" /\ op.fail = 0 /\ ctx = "live"
    /\ env0["OCI_LIB64"] = <<".">>
    /\ ret.err = Nil
    /\ env = env0
    /\ env["TNS_ADMIN"] = OldTns
    /\ conf.InstallPath = OldLib
    /\ Abs(OldLib) \in dirs

\* C26 witness: OCI_LIB64 was unset
C26_WitnessUnset ==
    /\ op.kind = "Uninstall" /\ ctx = "live"
    /\ env0["OCI_LIB64"] = Unset
    /\ ret.err = Nil
    /\ env = env0
    /\ conf.InstallPath = OldRoot
    /\ Abs(OldRoot) \in dirs

\* TNS_ADMIN is unset or names network/admin below the directory OCI_LIB64
\* names
Consistent(e) ==
    \/ e["TNS_ADMIN"] = Unset
    \/ /\ e["OCI_LIB64"] # Unset
       /\ SamePath(e["TNS_ADMIN"], Join(<<e["OCI_LIB64"], <<"network">>, <<"admin">>>>))

\* C27 as stated: when the run ends, by success or by the failure of any
\* step, TNS_ADMIN is unset or equals <OCI_LIB64>/network/admin, provided that
\* was so when the run started.
C27_AsStated ==
    (pc \in {"done", "exited"} /\ Consistent(env0)) => Consistent(env)

\* the steps of main that are still to come
Rank(at) ==
    CASE at = "main" -> 5
      [] at = "current" -> 4
      [] at = "location" -> 3
      [] at = "validate" -> 2
      [] at = "install" -> 1
      [] OTHER -> 0

\* the prompts a handler has shown, and the lines read at each
PromptsWithin(most) ==
    /\ Len(ret.val) <= most
    /\ \A k \in 1..Len(ret.val) : ret.val[k] <= maxAttempts

\* C29: every run reaches Done or Failed; each step of main is taken at most
\* once, in order, apart from the one expiry of the deadline;
\* handleCurrentInstall shows at most one prompt and handleInstallLocation at
\* most four, five in one run, and at most three lines are read at any prompt.
C29_Terminates ==
    /\ <>(pc \in {"done", "exited"})
    /\ [][\/ Rank(pc') < Rank(pc)
          \/ pc' = pc /\ ctx = "live" /\ ctx' = "done"]_vars
    /\ [](op.kind = "handleCurrentInstall" => PromptsWithin(1))
    /\ [](op.kind = "handleInstallLocation" => PromptsWithin(4))

\* C29 witness: the overwrite prompt was answered, then the four prompts of
\* handleInstallLocation, the path at the second line typed
C29_Witness ==
    /\ op.kind = "handleInstallLocation"
    /\ "Uninstall" \in calls
    /\ ret.val = <<1, 1, 2, 1>>
    /\ pc = "validate"

\* C29 witness: the run ended at a prompt after three invalid lines
C29_WitnessAbort ==
    /\ op.kind = "handleInstallLocation"
    /\ ret.val = <<1, 1, 3>>
    /\ fatal = "maximum input attempts exceeded, installation aborted"
    /\ pc = "exited"

\* C22: when the user answers yes to the overwrite prompt and Remove
\* succeeds, what is deleted is exactly the directory OCI_LIB64 pointed to,
\* with all below it and nothing else, and the install path left in the
\* configuration is the parent of that directory.
C22_AsStated ==
    [][("Remove" \in calls' /\ ret'.err = Nil /\ env'.OCI_LIB64 = Unset)
          => /\ dirs' = {d \in dirs : ~Under(Abs(ret'.val), d)}
             /\ files' = {f \in files : ~Under(Abs(ret'.val), f)}
             /\ conf'.InstallPath = Dir(ret'.val)]_vars

\* C28: once the saving Uninstall has been called with Extant and Overwrite
\* both set, a copy of tnsnames.ora exists in the old installation (the
\* directory TNS_ADMIN named) or in the Downloads folder: the installation is
\* deleted only after the file has been moved.
C28_AsStated ==
    (conf.Extant /\ conf.Overwrite)
        => \E d \in {env0.TNS_ADMIN, conf.DownloadsPath} :
              Abs(Join(<<d, <<"tnsnames.ora">>>>)) \in files
====
